---- MODULE Spec2Model ----
(***************************************************************************)
(* A model of sabi-tui's ReAct engine: the six-state conversation state    *)
(* machine (src/src/state.rs), the App container and its key handlers      *)
(* (src/src/app.rs) and the event loop run_loop (src/src/main.rs) with its *)
(* background model calls and executor tasks.                              *)
(*                                                                         *)
(* Strings are sequences of one-character strings, so that trimming,       *)
(* prefix tests and line splitting are computed as the code computes them. *)
(* UI-only state (spinner_frame, scroll_offset) is not part of the model.  *)
(***************************************************************************)
EXTENDS Integers, Sequences, FiniteSets, TLC

(* ---------------------------------------------------------------------- *)
(* Bounds of the model                                                     *)
(* ---------------------------------------------------------------------- *)

\* longest text the user types into the input buffer
MaxInput == 1

\* most keys the user edits a staged action with
MaxEdits == 1

\* conversation length up to which handlers that append are explored
MaxMsgs == 6

(* ---------------------------------------------------------------------- *)
(* Option values and strings                                               *)
(* ---------------------------------------------------------------------- *)

None == <<"None">>

Some(x) == <<"Some", x>>

IsSome(o) == o # None

Unwrap(o) == o[2]

\* char::is_whitespace on the characters the model uses
IsWhitespace(c) == c \in {" ", "\t", "\n", "\r"}

RECURSIVE TrimStart(_)
TrimStart(s) ==
  IF s = <<>> THEN <<>>
  ELSE IF IsWhitespace(Head(s)) THEN TrimStart(Tail(s)) ELSE s

RECURSIVE TrimEnd(_)
TrimEnd(s) ==
  IF s = <<>> THEN <<>>
  ELSE IF IsWhitespace(s[Len(s)]) THEN TrimEnd(SubSeq(s, 1, Len(s) - 1)) ELSE s

\* str::trim
Trim(s) == TrimEnd(TrimStart(s))

\* str::starts_with
StartsWith(s, p) == Len(s) >= Len(p) /\ SubSeq(s, 1, Len(p)) = p

(* ---------------------------------------------------------------------- *)
(* Text helpers                                                            *)
(* ---------------------------------------------------------------------- *)

\* the characters of \w in the regex crate, on the ASCII range
WordChars ==
  {"a", "b", "c", "d", "e", "f", "g", "h", "i", "j", "k", "l", "m", "n", "o", "p",
   "q", "r", "s", "t", "u", "v", "w", "x", "y", "z", "A", "B", "C", "D", "E", "F",
   "G", "H", "I", "J", "K", "L", "M", "N", "O", "P", "Q", "R", "S", "T", "U", "V",
   "W", "X", "Y", "Z", "0", "1", "2", "3", "4", "5", "6", "7", "8", "9", "_"}

\* s has the text p at position i
HasAt(s, i, p) == i >= 1 /\ i + Len(p) - 1 <= Len(s) /\ SubSeq(s, i, i + Len(p) - 1) = p

\* the regex assertion \b between positions i - 1 and i of s
WordBoundary(s, i) ==
  LET before == i >= 2 /\ i - 1 <= Len(s) /\ s[i - 1] \in WordChars
      after == i >= 1 /\ i <= Len(s) /\ s[i] \in WordChars
  IN before # after

\* str::find: the first position of p in s, 0 when there is none
Find(s, p) ==
  LET hits == {i \in 1..(Len(s) + 1) : HasAt(s, i, p)}
  IN IF hits = {} THEN 0 ELSE CHOOSE i \in hits : \A j \in hits : i <= j

RECURSIVE SeqsUpTo(_, _)
\* the sequences of at most n elements of S
SeqsUpTo(S, n) ==
  IF n = 0 THEN {<<>>}
  ELSE SeqsUpTo(S, n - 1) \cup
       {Append(s, x) : s \in {t \in SeqsUpTo(S, n - 1) : Len(t) = n - 1}, x \in S}

RECURSIVE SplitOn(_, _, _)
\* str::split on one character: the pieces of s between occurrences of c
SplitOn(s, c, cur) ==
  IF s = <<>> THEN <<cur>>
  ELSE IF Head(s) = c THEN <<cur>> \o SplitOn(Tail(s), c, <<>>)
  ELSE SplitOn(Tail(s), c, Append(cur, Head(s)))

\* str::lines: split at "\n", drop an empty last piece, drop a trailing "\r" of a line
Lines(s) ==
  LET raw == SplitOn(s, "\n", <<>>)
      cut == IF raw[Len(raw)] = <<>> THEN SubSeq(raw, 1, Len(raw) - 1) ELSE raw
      Strip(l) == IF l # <<>> /\ l[Len(l)] = "\r" THEN SubSeq(l, 1, Len(l) - 1) ELSE l
  IN [i \in 1..Len(cut) |-> Strip(cut[i])]

RECURSIVE Join(_, _)
\* [String]::join
Join(ls, sep) ==
  IF ls = <<>> THEN <<>>
  ELSE IF Len(ls) = 1 THEN ls[1]
  ELSE ls[1] \o sep \o Join(Tail(ls), sep)

Digits == <<"0", "1", "2", "3", "4", "5", "6", "7", "8", "9">>

RECURSIVE ToDecimal(_)
\* the Display form of a usize
ToDecimal(n) ==
  IF n < 10 THEN <<Digits[n + 1]>> ELSE ToDecimal(n \div 10) \o <<Digits[(n % 10) + 1]>>

(* ---------------------------------------------------------------------- *)
(* tool_call.rs: ToolCall                                                  *)
(* ---------------------------------------------------------------------- *)

S_tool == <<"t", "o", "o", "l">>

S_command == <<"c", "o", "m", "m", "a", "n", "d">>

S_code == <<"c", "o", "d", "e">>

S_path == <<"p", "a", "t", "h">>

S_content == <<"c", "o", "n", "t", "e", "n", "t">>

S_pattern == <<"p", "a", "t", "t", "e", "r", "n">>

S_directory == <<"d", "i", "r", "e", "c", "t", "o", "r", "y">>

S_run_cmd == <<"r", "u", "n", "_", "c", "m", "d">>

S_run_python == <<"r", "u", "n", "_", "p", "y", "t", "h", "o", "n">>

S_read_file == <<"r", "e", "a", "d", "_", "f", "i", "l", "e">>

S_write_file == <<"w", "r", "i", "t", "e", "_", "f", "i", "l", "e">>

S_search == <<"s", "e", "a", "r", "c", "h">>

\* the fields of struct ToolCall; code is the field main.rs and executor.rs read
ToolFields == <<S_tool, S_command, S_code, S_path, S_content, S_pattern, S_directory>>

\* struct ToolCall
ToolCall(tool, command, code, path, content, pattern, directory) ==
  [tool |-> tool, command |-> command, code |-> code, path |-> path,
   content |-> content, pattern |-> pattern, directory |-> directory]

\* A plausible slip: the discriminator compared with the name of the constructor.
is_run_cmd_WrongName(tc) == tc.tool = <<"r", "u", "n">>

\* ToolCall::is_run_cmd
is_run_cmd(tc) == tc.tool = S_run_cmd

\* ToolCall::is_allowed_tool
is_allowed_tool(tc) ==
  tc.tool \in {S_run_cmd, S_run_python, S_read_file, S_write_file, S_search}

\* ToolCall::is_destructive
is_destructive(tc) == tc.tool = S_write_file

(* ---------------------------------------------------------------------- *)
(* tool_call.rs: parsing a model response                                  *)
(* ---------------------------------------------------------------------- *)

\* a failed parse step
Fail == <<FALSE, <<>>, 0>>

RECURSIVE SkipWs(_, _)
\* serde_json skips ' ', '\n', '\t', '\r' between tokens
SkipWs(s, i) ==
  IF i <= Len(s) /\ s[i] \in {" ", "\n", "\t", "\r"} THEN SkipWs(s, i + 1) ELSE i

RECURSIVE JsonStringBody(_, _, _)
\* the characters of a JSON string from position i up to its closing quote:
\* <<ok, value, position after the quote>>. Escapes \" \\ \/ \n \t \r are decoded,
\* a raw control character is an error.
JsonStringBody(s, i, acc) ==
  IF i > Len(s) THEN Fail
  ELSE IF s[i] = "\"" THEN <<TRUE, acc, i + 1>>
  ELSE IF s[i] = "\\" THEN
    IF i + 1 > Len(s) THEN Fail
    ELSE IF s[i + 1] \in {"\"", "\\", "/"} THEN JsonStringBody(s, i + 2, Append(acc, s[i + 1]))
    ELSE IF s[i + 1] = "n" THEN JsonStringBody(s, i + 2, Append(acc, "\n"))
    ELSE IF s[i + 1] = "t" THEN JsonStringBody(s, i + 2, Append(acc, "\t"))
    ELSE IF s[i + 1] = "r" THEN JsonStringBody(s, i + 2, Append(acc, "\r"))
    ELSE Fail
  ELSE IF s[i] \in {"\n", "\t", "\r"} THEN Fail
  ELSE JsonStringBody(s, i + 1, Append(acc, s[i]))

RECURSIVE JsonNumberEnd(_, _)
\* the position after a run of digits
JsonNumberEnd(s, i) ==
  IF i <= Len(s) /\ s[i] \in {"0", "1", "2", "3", "4", "5", "6", "7", "8", "9"}
  THEN JsonNumberEnd(s, i + 1) ELSE i

RECURSIVE JsonMembers(_, _, _, _)
RECURSIVE JsonValue(_, _)

\* a JSON value at position i: <<ok, <<kind, value>>, next>>; kind is "string" for a
\* string and "other" for a number or a nested object
JsonValue(s, i) ==
  IF i > Len(s) THEN Fail
  ELSE IF s[i] = "\"" THEN
    LET r == JsonStringBody(s, i + 1, <<>>)
    IN IF r[1] THEN <<TRUE, <<"string", r[2]>>, r[3]>> ELSE Fail
  ELSE IF s[i] = "{" THEN
    LET r == JsonMembers(s, i + 1, <<>>, TRUE)
    IN IF r[1] THEN <<TRUE, <<"other", <<>>>>, r[3]>> ELSE Fail
  ELSE IF JsonNumberEnd(s, i) > i THEN <<TRUE, <<"other", <<>>>>, JsonNumberEnd(s, i)>>
  ELSE Fail

\* the members of a JSON object after its '{': <<ok, <<key, kind, value>>*, next>>
JsonMembers(s, i, acc, first) ==
  LET j == SkipWs(s, i)
  IN IF j > Len(s) THEN Fail
     ELSE IF first /\ s[j] = "}" THEN <<TRUE, acc, j + 1>>
     ELSE IF s[j] # "\"" THEN Fail
     ELSE
       LET key == JsonStringBody(s, j + 1, <<>>)
       IN IF ~key[1] THEN Fail
          ELSE
            LET k == SkipWs(s, key[3])
            IN IF k > Len(s) \/ s[k] # ":" THEN Fail
               ELSE
                 LET v == JsonValue(s, SkipWs(s, k + 1))
                 IN IF ~v[1] THEN Fail
                    ELSE
                      LET l == SkipWs(s, v[3])
                          acc2 == Append(acc, <<key[2], v[2][1], v[2][2]>>)
                      IN IF l > Len(s) THEN Fail
                         ELSE IF s[l] = "," THEN JsonMembers(s, l + 1, acc2, FALSE)
                         ELSE IF s[l] = "}" THEN <<TRUE, acc2, l + 1>>
                         ELSE Fail

\* the value serde gives a field of ToolCall: the member's string, or the default
FieldOf(members, name) ==
  LET hits == {m \in 1..Len(members) : members[m][1] = name}
  IN IF hits = {} THEN <<>> ELSE members[CHOOSE m \in hits : TRUE][3]

\* an Option, or the one computed when it is None: the shape of
\* "if let Some(x) = a { return Some(x); } b"
OrElse(a, b) == IF IsSome(a) THEN a ELSE b

\* serde's derive for ToolCall on the members r of an object that ends the text at
\* position rest: known fields hold strings and appear once, "tool" is required,
\* unknown fields are ignored, missing ones default
ToolCallFromMembers(s, r) ==
  IF ~r[1] \/ SkipWs(s, r[3]) <= Len(s) THEN None
  ELSE IF \E m \in 1..Len(r[2]) :
            r[2][m][1] \in {ToolFields[f] : f \in 1..Len(ToolFields)} /\ r[2][m][2] # "string"
    THEN None
  ELSE IF \E m, n \in 1..Len(r[2]) :
            /\ m # n
            /\ r[2][m][1] \in {ToolFields[f] : f \in 1..Len(ToolFields)}
            /\ r[2][m][1] = r[2][n][1]
    THEN None
  ELSE IF ~(\E m \in 1..Len(r[2]) : r[2][m][1] = S_tool) THEN None
  ELSE Some(ToolCall(FieldOf(r[2], S_tool), FieldOf(r[2], S_command),
                     FieldOf(r[2], S_code), FieldOf(r[2], S_path),
                     FieldOf(r[2], S_content), FieldOf(r[2], S_pattern),
                     FieldOf(r[2], S_directory)))

\* the object of try_parse_json opens at position j
ToolCallAt(s, j) ==
  IF j > Len(s) \/ s[j] # "{" THEN None
  ELSE ToolCallFromMembers(s, JsonMembers(s, j + 1, <<>>, TRUE))

\* ToolCall::try_parse_json: serde_json::from_str::<ToolCall>(s).ok()
try_parse_json(s) == ToolCallAt(s, SkipWs(s, 1))

\* the backtick character, written as a name: the lexer of TLA+ pairs a literal
\* backtick with a later apostrophe
Backtick == "BT"

Fence == <<Backtick, Backtick, Backtick>>

FenceJson == Fence \o <<"j", "s", "o", "n">>

\* one round of the loop of try_parse_markdown_block, for one opening pattern
MarkdownBlockFor(s, pattern) ==
  LET start_idx == Find(s, pattern)
  IN IF start_idx = 0 THEN None
     ELSE
       LET content_start == start_idx + Len(pattern)
           rest == SubSeq(s, content_start, Len(s))
           end_idx == Find(rest, Fence)
       IN IF end_idx = 0 THEN None
          ELSE try_parse_json(Trim(SubSeq(rest, 1, end_idx - 1)))

\* ToolCall::try_parse_markdown_block
try_parse_markdown_block(s) ==
  OrElse(MarkdownBlockFor(s, FenceJson), MarkdownBlockFor(s, Fence))

RECURSIVE BraceScan(_, _, _, _)
\* the loop of try_find_json_object from character i on, with its depth and
\* start; the characters that are no braces are passed over, j is the next brace
BraceScan(s, i, depth, start) ==
  LET braces == {k \in i..Len(s) : s[k] \in {"{", "}"}}
  IN IF braces = {} THEN None
     ELSE
       LET j == CHOOSE k \in braces : \A l \in braces : k <= l
       IN IF s[j] = "{"
          THEN BraceScan(s, j + 1, depth + 1, IF depth = 0 THEN Some(j) ELSE start)
          ELSE IF depth - 1 = 0 THEN
            IF IsSome(start)
            THEN OrElse(try_parse_json(SubSeq(s, Unwrap(start), j)), BraceScan(s, j + 1, 0, None))
            ELSE BraceScan(s, j + 1, 0, None)
          ELSE BraceScan(s, j + 1, depth - 1, start)

\* ToolCall::try_find_json_object
try_find_json_object(s) == BraceScan(s, 1, 0, None)

\* ToolCall::parse
ToolCall_parse(response) ==
  OrElse(try_parse_json(Trim(response)),
         OrElse(try_parse_markdown_block(Trim(response)),
                try_find_json_object(Trim(response))))

\* A plausible slip: the text handed back is the trimmed one.
ParsedResponseOf_Trimmed(response, tool_call) ==
  IF IsSome(tool_call)
  THEN <<"ToolCall", Unwrap(tool_call)>>
  ELSE <<"TextResponse", Trim(response)>>

\* the match of ParsedResponse::parse on the Option that ToolCall::parse returned
ParsedResponseOf(response, tool_call) ==
  IF IsSome(tool_call)
  THEN <<"ToolCall", Unwrap(tool_call)>>
  ELSE <<"TextResponse", response>>

\* ParsedResponse::parse
ParsedResponse_parse(response) == ParsedResponseOf(response, ToolCall_parse(response))

(* ---------------------------------------------------------------------- *)
(* executor.rs: the classifiers                                            *)
(* ---------------------------------------------------------------------- *)

\* a compiled pattern is a sequence of pieces: <<"lit", text>>, <<"ws+">>, <<"ws*">>
Lit(text) == <<"lit", text>>

RECURSIVE MatchFrom(_, _, _, _)
\* the pieces pat[k..] match s from position i on
MatchFrom(s, i, pat, k) ==
  IF k > Len(pat) THEN TRUE
  ELSE IF pat[k][1] = "lit"
    THEN HasAt(s, i, pat[k][2]) /\ MatchFrom(s, i + Len(pat[k][2]), pat, k + 1)
  ELSE \E m \in (IF pat[k][1] = "ws+" THEN 1 ELSE 0)..(Len(s) - i + 1) :
         /\ \A j \in i..(i + m - 1) : IsWhitespace(s[j])
         /\ MatchFrom(s, i + m, pat, k + 1)

\* Regex::is_match: the pattern matches somewhere in s
IsMatch(s, pat) == \E i \in 1..(Len(s) + 1) : MatchFrom(s, i, pat, 1)

\* default_dangerous_patterns
default_dangerous_patterns ==
  {<<Lit(<<"r", "m">>), <<"ws+">>, Lit(<<"-", "r", "f">>), <<"ws+">>, Lit(<<"/">>)>>,
   <<Lit(<<"m", "k", "f", "s">>)>>,
   <<Lit(<<"d", "d">>), <<"ws+">>, Lit(<<"i", "f", "=">>)>>,
   <<Lit(<<":", "(", ")">>), <<"ws*">>, Lit(<<"{">>)>>,
   <<Lit(<<">">>), <<"ws*">>, Lit(<<"/", "d", "e", "v", "/", "s", "d">>)>>}

\* DangerousCommandDetector::is_dangerous
is_dangerous(command) == \E p \in default_dangerous_patterns : IsMatch(command, p)

\* ^(w1|w2|...)\b for the words of a group
StartsWithWord(cmd, words) ==
  \E w \in words : HasAt(cmd, 1, w) /\ WordBoundary(cmd, Len(w) + 1)

InteractiveEditors ==
  {<<"n", "a", "n", "o">>, <<"v", "i">>, <<"v", "i", "m">>,
   <<"e", "m", "a", "c", "s">>, <<"p", "i", "c", "o">>, <<"n", "e">>, <<"j", "o", "e">>}

InteractiveRemote ==
  {<<"s", "s", "h">>, <<"t", "e", "l", "n", "e", "t">>, <<"f", "t", "p">>,
   <<"s", "f", "t", "p">>}

InteractivePagers ==
  {<<"h", "t", "o", "p">>, <<"t", "o", "p">>, <<"l", "e", "s", "s">>,
   <<"m", "o", "r", "e">>, <<"m", "a", "n">>}

InteractiveDatabases ==
  {<<"m", "y", "s", "q", "l">>, <<"p", "s", "q", "l">>,
   <<"s", "q", "l", "i", "t", "e", "3">>, <<"m", "o", "n", "g", "o">>}

InteractiveRepls ==
  {<<"p", "y", "t", "h", "o", "n">>, <<"n", "o", "d", "e">>, <<"i", "r", "b">>,
   <<"g", "h", "c", "i">>}

InteractiveContainers ==
  {<<"d", "o", "c", "k", "e", "r">>, <<"p", "o", "d", "m", "a", "n">>}

\* \b(docker|podman)\s+.*\s-it\b
MatchesContainerIt(cmd) ==
  \E i \in 1..Len(cmd) : \E w \in InteractiveContainers :
    /\ WordBoundary(cmd, i)
    /\ HasAt(cmd, i, w)
    /\ \E m \in 1..Len(cmd) : \E p \in 1..Len(cmd) :
         /\ i + Len(w) + m <= p
         /\ \A j \in (i + Len(w))..(i + Len(w) + m - 1) : IsWhitespace(cmd[j])
         /\ \A j \in (i + Len(w) + m)..(p - 1) : cmd[j] # "\n"
         /\ IsWhitespace(cmd[p])
         /\ HasAt(cmd, p + 1, <<"-", "i", "t">>)
         /\ WordBoundary(cmd, p + 4)

\* InteractiveCommandDetector::is_interactive
is_interactive(command) ==
  LET cmd == Trim(command)
  IN \/ StartsWithWord(cmd, InteractiveEditors)
     \/ StartsWithWord(cmd, InteractiveRemote)
     \/ StartsWithWord(cmd, InteractivePagers)
     \/ StartsWithWord(cmd, InteractiveDatabases)
     \/ cmd \in InteractiveRepls
     \/ MatchesContainerIt(cmd)

(* ---------------------------------------------------------------------- *)
(* state.rs: the state machine                                             *)
(* ---------------------------------------------------------------------- *)

AppStates == {"Input", "Thinking", "ReviewAction", "Executing", "Finalizing", "Done"}

SubmitInput(is_empty) == <<"SubmitInput", is_empty>>

StateEvents ==
  {SubmitInput(TRUE), SubmitInput(FALSE)} \cup
  {<<e>> : e \in {"Escape", "ToolCallReceived", "TextResponseReceived", "ApiError",
                  "ConfirmCommand", "CancelCommand", "CommandComplete",
                  "AnalysisComplete", "Continue"}}

Success(s) == <<"Success", s>>

Ignored == <<"Ignored">>

Error(msg) == <<"Error", msg>>

\* format!("Invalid transition: {:?} with event {:?}", state, event)
InvalidTransition(current, event) == <<"Invalid transition", current, event>>

\* A plausible slip: the Executing arm forgotten, so CommandComplete is invalid.
transition_NoExecutingArm(current, event) ==
  CASE current = "Input" /\ event = SubmitInput(TRUE) -> Ignored
    [] current = "Input" /\ event = SubmitInput(FALSE) -> Success("Thinking")
    [] current = "Input" /\ event = <<"Escape">> -> Success("Done")
    [] current = "Thinking" /\ event = <<"ToolCallReceived">> -> Success("ReviewAction")
    [] current = "Thinking" /\ event = <<"TextResponseReceived">> -> Success("Input")
    [] current = "Thinking" /\ event = <<"ApiError">> -> Success("Input")
    [] current = "ReviewAction" /\ event = <<"ConfirmCommand">> -> Success("Executing")
    [] current = "ReviewAction" /\ event = <<"CancelCommand">> -> Success("Input")
    [] current = "ReviewAction" /\ event = <<"Escape">> -> Success("Input")
    [] current = "Finalizing" /\ event = <<"ToolCallReceived">> -> Success("ReviewAction")
    [] current = "Finalizing" /\ event = <<"TextResponseReceived">> -> Success("Input")
    [] current = "Finalizing" /\ event = <<"AnalysisComplete">> -> Success("Input")
    [] current = "Finalizing" /\ event = <<"ApiError">> -> Success("Input")
    [] current = "Done" /\ event = <<"Continue">> -> Success("Input")
    [] OTHER -> Error(InvalidTransition(current, event))

\* pub fn transition(current, event) -> TransitionResult
transition(current, event) ==
  CASE current = "Input" /\ event = SubmitInput(TRUE) -> Ignored
    [] current = "Input" /\ event = SubmitInput(FALSE) -> Success("Thinking")
    [] current = "Input" /\ event = <<"Escape">> -> Success("Done")
    [] current = "Thinking" /\ event = <<"ToolCallReceived">> -> Success("ReviewAction")
    [] current = "Thinking" /\ event = <<"TextResponseReceived">> -> Success("Input")
    [] current = "Thinking" /\ event = <<"ApiError">> -> Success("Input")
    [] current = "ReviewAction" /\ event = <<"ConfirmCommand">> -> Success("Executing")
    [] current = "ReviewAction" /\ event = <<"CancelCommand">> -> Success("Input")
    [] current = "ReviewAction" /\ event = <<"Escape">> -> Success("Input")
    [] current = "Executing" /\ event = <<"CommandComplete">> -> Success("Finalizing")
    [] current = "Finalizing" /\ event = <<"ToolCallReceived">> -> Success("ReviewAction")
    [] current = "Finalizing" /\ event = <<"TextResponseReceived">> -> Success("Input")
    [] current = "Finalizing" /\ event = <<"AnalysisComplete">> -> Success("Input")
    [] current = "Finalizing" /\ event = <<"ApiError">> -> Success("Input")
    [] current = "Done" /\ event = <<"Continue">> -> Success("Input")
    [] OTHER -> Error(InvalidTransition(current, event))

\* AppState::blocks_input
blocks_input(s) == s \in {"Thinking", "Finalizing", "Executing"}

(* ---------------------------------------------------------------------- *)
(* app.rs: the App container                                               *)
(* ---------------------------------------------------------------------- *)

VARIABLES
  state,                       \* App.state
  input_textarea,              \* App.input_textarea, its text
  action_textarea,             \* App.action_textarea, its text
  messages,                    \* App.messages
  current_command,             \* App.current_command
  current_tool,                \* App.current_tool
  execution_output,            \* App.execution_output
  error_message,               \* App.error_message
  should_quit,                 \* App.should_quit
  dangerous_command_detected,  \* App.dangerous_command_detected
  running_task,                \* App.running_task: the stored JoinHandle
  python_available,            \* App.python_available
  safe_mode,                   \* App.config.safe_mode
  ai_client,                   \* run_loop's ai_client: TRUE when a client was built
  tasks,                       \* spawned background tasks that have not finished
  queue,                       \* the event channel: events posted by tasks
  edits,                       \* keys typed into the action buffer since it was loaded
  last                         \* the step taken last (history variable)

vars ==
  <<state, input_textarea, action_textarea, messages, current_command, current_tool,
    execution_output, error_message, should_quit, dangerous_command_detected,
    running_task, python_available, safe_mode, ai_client, tasks, queue, edits, last>>

(* ---------------------------------------------------------------------- *)
(* message.rs and the texts the loop writes                                *)
(* ---------------------------------------------------------------------- *)

\* Message::new; the fixed texts of the program are written as one piece each
Message(role, content) == [role |-> role, content |-> content]

\* gemini::SYSTEM_PROMPT, the constant text
SYSTEM_PROMPT == <<"SYSTEM_PROMPT">>

\* the system prompt main builds before the loop starts: the constant followed by
\* the system context
SystemPromptText == SYSTEM_PROMPT \o <<"\n\n", "system_context">>

CommandCancelledText == <<"Command cancelled">>

ApiKeyNotConfigured == <<"API key not configured">>

\* the Display form of an i32
IntToString(n) == IF n < 0 THEN <<"-">> \o ToDecimal(0 - n) ELSE ToDecimal(n)

LowerOf ==
  [c \in {"A", "B", "C", "D", "E", "F", "G", "H", "I", "J", "K", "L", "M", "N", "O",
          "P", "Q", "R", "S", "T", "U", "V", "W", "X", "Y", "Z"} |->
     CASE c = "A" -> "a" [] c = "B" -> "b" [] c = "C" -> "c" [] c = "D" -> "d"
       [] c = "E" -> "e" [] c = "F" -> "f" [] c = "G" -> "g" [] c = "H" -> "h"
       [] c = "I" -> "i" [] c = "J" -> "j" [] c = "K" -> "k" [] c = "L" -> "l"
       [] c = "M" -> "m" [] c = "N" -> "n" [] c = "O" -> "o" [] c = "P" -> "p"
       [] c = "Q" -> "q" [] c = "R" -> "r" [] c = "S" -> "s" [] c = "T" -> "t"
       [] c = "U" -> "u" [] c = "V" -> "v" [] c = "W" -> "w" [] c = "X" -> "x"
       [] c = "Y" -> "y" [] c = "Z" -> "z"]

\* str::to_lowercase
ToLowercase(s) == [i \in 1..Len(s) |-> IF s[i] \in DOMAIN LowerOf THEN LowerOf[s[i]] ELSE s[i]]

(* ---------------------------------------------------------------------- *)
(* app.rs: buffers, submit and slash commands                              *)
(* ---------------------------------------------------------------------- *)

\* A plausible slip: the text of the buffer taken as typed, the trim forgotten.
get_input_text_Untrimmed(textarea) == textarea

\* App::get_input_text
get_input_text(textarea) == Trim(textarea)

\* A plausible slip: the action buffer is read as typed, without the trim.
get_action_text_Untrimmed(textarea) == textarea

\* App::get_action_text
get_action_text(textarea) == Trim(textarea)

\* A plausible slip: the buffer is tested as typed, without the trim.
is_input_empty_Untrimmed(textarea) == textarea = <<>>

\* App::is_input_empty
is_input_empty(textarea) == get_input_text(textarea) = <<>>

\* App::set_action_text: the text the action textarea holds afterwards
set_action_text(text) == Join(Lines(text), <<"\n">>)

\* TextArea::input for the keys of the model, with the cursor at the end of the text
TextAreaInput(text, key) ==
  IF key[1] = "Char" THEN Append(text, key[2])
  ELSE IF key[1] = "Backspace" /\ text # <<>> THEN SubSeq(text, 1, Len(text) - 1)
  ELSE text

S_clear == <<"/", "c", "l", "e", "a", "r">>

S_help == <<"/", "h", "e", "l", "p">>

S_quit == <<"/", "q", "u", "i", "t">>

S_exit == <<"/", "e", "x", "i", "t">>

S_q == <<"/", "q">>

\* the command word of handle_slash_command: input.trim().splitn(2, ' ')[0].to_lowercase()
SlashCommandWord(input) == ToLowercase(SplitOn(Trim(input), " ", <<>>)[1])

S_new == <<"/", "n", "e", "w">>

S_sessions == <<"/", "s", "e", "s", "s", "i", "o", "n", "s">>

S_switch == <<"/", "s", "w", "i", "t", "c", "h">>

S_delete == <<"/", "d", "e", "l", "e", "t", "e">>

\* the argument of handle_slash_command: parts.get(1).map(|s| s.trim())
SlashArg(input) ==
  LET t == Trim(input)
      k == Find(t, <<" ">>)
  IN IF k = 0 THEN None ELSE Some(Trim(SubSeq(t, k + 1, Len(t))))

\* what the session files answer to a session command: the session named is
\* there (with its messages), is not, or is the current one; for /sessions,
\* whether any session is saved
SessionAnswers ==
  {<<"Ok", <<>>>>,
   <<"Ok", <<Message("User", <<"a">>), Message("Model", <<"b">>)>>>>,
   <<"Err", <<>>>>, <<"Current", <<>>>>}

\* A plausible slip: an unrecognized command left without an answer.
SlashMessages_SilentUnknown(msgs, input, answer) ==
  IF SlashCommandWord(input) = S_clear
  THEN Append(SelectSeq(msgs, LAMBDA m : m.role = "System"),
              Message("System", <<"Chat cleared.">>))
  ELSE msgs

\* handle_slash_command: the conversation it leaves, given the answer of the
\* session files
SlashMessages(msgs, input, answer) ==
  LET cmd == SlashCommandWord(input)
      arg == SlashArg(input)
      system_only == SelectSeq(msgs, LAMBDA m : m.role = "System")
      others == SelectSeq(msgs, LAMBDA m : m.role # "System")
      Sys(text) == Message("System", text)
  IN CASE cmd = S_clear -> Append(system_only, Sys(<<"Chat cleared.">>))
       [] cmd = S_help -> Append(msgs, Sys(<<"Available commands">>))
       [] cmd = S_new -> Append(system_only, Sys(<<"New session started: ", "id">>))
       [] cmd = S_sessions ->
            Append(msgs, Sys(IF answer[1] = "Err" THEN <<"No saved sessions.">>
                             ELSE <<"Sessions:\n", "list">>))
       [] cmd = S_switch ->
            IF ~IsSome(arg) THEN Append(msgs, Sys(<<"Usage: /switch <session_id>">>))
            ELSE IF answer[1] = "Ok"
              THEN Append(system_only \o answer[2], Sys(<<"Switched to session: ">> \o Unwrap(arg)))
            ELSE IF answer[1] = "Current"
              THEN Append(system_only \o others, Sys(<<"Switched to session: ">> \o Unwrap(arg)))
            ELSE Append(msgs, Sys(<<"Failed to switch: ", "error">>))
       [] cmd = S_delete ->
            IF ~IsSome(arg) THEN Append(msgs, Sys(<<"Usage: /delete <session_id>">>))
            ELSE IF answer[1] = "Current"
              THEN Append(msgs, Sys(<<"Cannot delete current session. Switch first.">>))
            ELSE IF answer[1] = "Ok"
              THEN Append(msgs, Sys(<<"Deleted session: ">> \o Unwrap(arg)))
            ELSE Append(msgs, Sys(<<"Failed to delete: ", "error">>))
       [] cmd \in {S_quit, S_exit, S_q} -> msgs
       [] OTHER ->
            Append(msgs, Sys(<<"Unknown command: ">> \o cmd \o
                             <<". Type /help for available commands.">>))

\* handle_slash_command: its SubmitResult
SlashResult(input) ==
  IF SlashCommandWord(input) \in {S_quit, S_exit, S_q} THEN "Quit" ELSE "Handled"

\* App::submit_input: its SubmitResult
submit_input_result(textarea) ==
  IF is_input_empty(textarea) THEN "Empty"
  ELSE IF StartsWith(get_input_text(textarea), <<"/">>)
    THEN SlashResult(get_input_text(textarea))
  ELSE "Query"

(* ---------------------------------------------------------------------- *)
(* main.rs: background tasks and the event channel                         *)
(* ---------------------------------------------------------------------- *)

\* the characters the user types
KeyChars == {"q", "/"}

\* the key events of the model
Keys ==
  {<<"Enter">>, <<"Esc">>, <<"Backspace">>, <<"Up">>} \cup {<<"Char", c>> : c \in KeyChars}

\* the identity tokio gives a spawned task: the least one not in use
NewTaskId ==
  LET used == {t.id : t \in tasks} \cup (IF IsSome(running_task) THEN {Unwrap(running_task)} ELSE {})
  IN CHOOSE n \in 0..Cardinality(used) : n \notin used

\* tokio::spawn of client.chat(&messages) posting Event::ApiResponse
ChatTask(msgs) ==
  [id |-> NewTaskId, kind |-> "chat", messages |-> msgs, tool |-> None, cancelled |-> FALSE]

\* tokio::spawn of exec.execute_tool_async(&tool) posting Event::CommandComplete
ExecTask(tool) ==
  [id |-> NewTaskId, kind |-> "exec", messages |-> <<>>, tool |-> Some(tool),
   cancelled |-> FALSE]

\* Bookkeeping, not program state: the tasks and the queued events of a turn that Esc
\* cancelled carry a mark, so that a late event can be told from a current one
MarkTasks(ts) == {[t EXCEPT !.cancelled = TRUE] : t \in ts}

MarkEvents(q) == [i \in 1..Len(q) |-> <<q[i][1], q[i][2], TRUE>>]

\* JoinHandle::abort: a task that has not posted yet never posts
Abort(ts, handle) == IF IsSome(handle) THEN {t \in ts : t.id # Unwrap(handle)} ELSE ts

\* the loop runs until should_quit is seen at the end of an iteration
Running == ~should_quit

\* handlers that append to the conversation are explored up to MaxMsgs messages
Room == Len(messages) < MaxMsgs

\* App::transition, the state it leaves in self.state
App_transition_state(s, event) ==
  LET r == transition(s, event) IN IF r[1] = "Success" THEN r[2] ELSE s

\* App::transition, the value it leaves in self.error_message
App_transition_error(em, s, event) ==
  LET r == transition(s, event) IN IF r[1] = "Error" THEN Some(r[2]) ELSE em

\* App::transition, the bool it returns
App_transition_ret(s, event) == transition(s, event)[1] = "Success"

\* the record of the step taken last
Step(ev, arg, pre, res, spawned) ==
  [ev |-> ev, arg |-> arg, pre |-> pre, res |-> res, spawned |-> spawned]

(* ---------------------------------------------------------------------- *)
(* The outcomes of background work                                         *)
(* ---------------------------------------------------------------------- *)

\* texts a model call answers with
ResponseText == <<"o", "k">>

ResponseRunCmd == <<"{", "\"", "t", "o", "o", "l", "\"", ":", "\"", "r", "u", "n", "_", "c", "m", "d", "\"", ",", "\"", "c", "o", "m", "m", "a", "n", "d", "\"", ":", "\"", "w", "\"", "}">>

ResponseRunPython == <<"{", "\"", "t", "o", "o", "l", "\"", ":", "\"", "r", "u", "n", "_", "p", "y", "t", "h", "o", "n", "\"", ",", "\"", "c", "o", "d", "e", "\"", ":", "\"", "1", "\"", "}">>

Responses == {ResponseText, ResponseRunCmd, ResponseRunPython}

\* the error kinds of a model call, as AIError::to_string gives them
ApiErrors == {<<"Network error">>}

\* Result<String, AIError> of client.chat
ChatOutcomes == {<<"Ok", r>> : r \in Responses} \cup {<<"Err", e>> : e \in ApiErrors}

\* struct CommandResult
CommandResult(stdout, stderr, exit_code, success) ==
  [stdout |-> stdout, stderr |-> stderr, exit_code |-> exit_code, success |-> success,
   truncated |-> FALSE]

\* execute_tool_async: the results a tool can end with (exit 0, non-zero exit,
\* spawn failure), an unknown tool always with "Unknown tool"
ExecOutcomes(tool) ==
  IF tool.tool \in {S_run_cmd, S_run_python, S_read_file, S_write_file, S_search}
  THEN {CommandResult(<<"o">>, <<>>, 0, TRUE),
        CommandResult(<<"o">>, <<"e">>, 1, FALSE),
        CommandResult(<<>>, <<"Failed to execute">>, 0 - 1, FALSE)}
  ELSE {CommandResult(<<>>, <<"Unknown tool: ">> \o tool.tool, 1, FALSE)}

(* ---------------------------------------------------------------------- *)
(* main.rs: run_loop, the Key branch                                       *)
(* ---------------------------------------------------------------------- *)

Init ==
  /\ state = "Input"
  /\ input_textarea = <<>>
  /\ action_textarea = <<>>
  /\ messages = <<Message("System", SystemPromptText)>>
  /\ current_command = None
  /\ current_tool = None
  /\ execution_output = <<>>
  /\ error_message = None
  /\ should_quit = FALSE
  /\ dangerous_command_detected = FALSE
  /\ running_task = None
  /\ python_available \in BOOLEAN
  /\ safe_mode \in BOOLEAN
  /\ ai_client \in BOOLEAN
  /\ tasks = {}
  /\ queue = <<>>
  /\ edits = 0
  /\ last = Step("Init", None, "Input", None, "none")

\* the variables no step of the loop changes
Fixed == <<python_available, safe_mode, ai_client>>

\* the arm of the handlers' match a key falls in: Enter, Esc, or the catch-all
KeyName(key) == IF key[1] \in {"Enter", "Esc"} THEN key[1] ELSE "Other"

\* A plausible slip: the test for Ctrl+C placed in the handler of Input.
KeyCtrlC_InInputOnly ==
  /\ Running /\ state = "Input"
  /\ should_quit' = TRUE
  /\ last' = Step("Key", "CtrlC", state, "Quit", "none")
  /\ UNCHANGED <<state, input_textarea, action_textarea, messages, current_command,
                 current_tool, execution_output, error_message,
                 dangerous_command_detected, running_task, tasks, queue, edits, Fixed>>

\* Ctrl+C in any state: handle_key_event sets should_quit and returns Quit
KeyCtrlC ==
  /\ Running
  /\ should_quit' = TRUE
  /\ last' = Step("Key", "CtrlC", state, "Quit", "none")
  /\ UNCHANGED <<state, input_textarea, action_textarea, messages, current_command,
                 current_tool, execution_output, error_message,
                 dangerous_command_detected, running_task, tasks, queue, edits, Fixed>>

\* Enter in Input with an empty or whitespace-only buffer: submit_input returns Empty.
\* For Enter in Input the step records the SubmitResult of submit_input.
InputEnterEmpty ==
  /\ Running /\ state = "Input"
  /\ submit_input_result(input_textarea) = "Empty"
  /\ last' = Step("Key", "Enter", state, "Empty", "none")
  /\ UNCHANGED <<state, input_textarea, action_textarea, messages, current_command,
                 current_tool, execution_output, error_message, should_quit,
                 dangerous_command_detected, running_task, tasks, queue, edits, Fixed>>

\* Enter in Input on a slash command: submit_input clears the buffer and calls
\* handle_slash_command
InputEnterSlash ==
  /\ Running /\ state = "Input" /\ Room
  /\ submit_input_result(input_textarea) \in {"Handled", "Quit"}
  /\ input_textarea' = <<>>
  /\ \E answer \in SessionAnswers :
       messages' = SlashMessages(messages, get_input_text(input_textarea), answer)
  /\ should_quit' = (submit_input_result(input_textarea) = "Quit")
  /\ last' = Step("Key", "Enter", state, submit_input_result(input_textarea), "none")
  /\ UNCHANGED <<state, action_textarea, current_command, current_tool,
                 execution_output, error_message, dangerous_command_detected,
                 running_task, tasks, queue, edits, Fixed>>

\* Enter in Input on a query: submit_input appends the User message, clears the
\* buffer and transitions; run_loop then spawns the model call, or reports the
\* missing client
InputEnterQuery ==
  /\ Running /\ state = "Input" /\ Room
  /\ submit_input_result(input_textarea) = "Query"
  /\ LET msgs1 == Append(messages, Message("User", get_input_text(input_textarea)))
         s1 == App_transition_state(state, SubmitInput(FALSE))
         em1 == App_transition_error(error_message, state, SubmitInput(FALSE))
     IN /\ messages' = msgs1
        /\ input_textarea' = <<>>
        /\ IF ai_client
           THEN /\ tasks' = tasks \cup {ChatTask(msgs1)}
                /\ state' = s1
                /\ error_message' = em1
                /\ last' = Step("Key", "Enter", state, "Query", "chat")
           ELSE /\ tasks' = tasks
                /\ state' = App_transition_state(s1, <<"ApiError">>)
                /\ error_message' =
                     App_transition_error(Some(ApiKeyNotConfigured), s1, <<"ApiError">>)
                /\ last' = Step("Key", "Enter", state, "Query", "none")
  /\ UNCHANGED <<action_textarea, current_command, current_tool, execution_output,
                 should_quit, dangerous_command_detected, running_task, queue, edits, Fixed>>

\* Esc in Input: should_quit, transition(Escape), Quit
InputEsc ==
  /\ Running /\ state = "Input"
  /\ should_quit' = TRUE
  /\ state' = App_transition_state(state, <<"Escape">>)
  /\ error_message' = App_transition_error(error_message, state, <<"Escape">>)
  /\ last' = Step("Key", "Esc", state, "Quit", "none")
  /\ UNCHANGED <<input_textarea, action_textarea, messages, current_command,
                 current_tool, execution_output, dangerous_command_detected,
                 running_task, tasks, queue, edits, Fixed>>

\* any other key in Input: Up scrolls, the rest goes to the input textarea
InputEdit(key) ==
  /\ Running /\ state = "Input"
  /\ key \notin {<<"Enter">>, <<"Esc">>}
  /\ key[1] = "Char" => Len(input_textarea) < MaxInput
  /\ input_textarea' = IF key = <<"Up">> THEN input_textarea
                       ELSE TextAreaInput(input_textarea, key)
  /\ last' = Step("Key", KeyName(key), state, "Handled", "none")
  /\ UNCHANGED <<state, action_textarea, messages, current_command, current_tool,
                 execution_output, error_message, should_quit,
                 dangerous_command_detected, running_task, tasks, queue, edits, Fixed>>

\* A plausible slip: Esc handled as in the other waiting states, a return to Input
\* instead of the quit.
ThinkingKey_EscReturnsToInput(key) ==
  /\ Running /\ state = "Thinking"
  /\ should_quit' = FALSE
  /\ state' = IF key = <<"Esc">> THEN "Input" ELSE state
  /\ last' = Step("Key", KeyName(key), state, IF key = <<"Esc">> THEN "Quit" ELSE "Blocked", "none")
  /\ UNCHANGED <<input_textarea, action_textarea, messages, current_command,
                 current_tool, execution_output, error_message,
                 dangerous_command_detected, running_task, tasks, queue, edits, Fixed>>

\* handle_thinking_state: Esc quits, every other key is blocked
ThinkingKey(key) ==
  /\ Running /\ state = "Thinking"
  /\ should_quit' = (key = <<"Esc">>)
  /\ last' = Step("Key", KeyName(key), state, IF key = <<"Esc">> THEN "Quit" ELSE "Blocked", "none")
  /\ UNCHANGED <<state, input_textarea, action_textarea, messages, current_command,
                 current_tool, execution_output, error_message,
                 dangerous_command_detected, running_task, tasks, queue, edits, Fixed>>

\* run_loop, safe mode: the description of what would run
SafeModeText(tool) ==
  <<"[SAFE MODE] ">> \o
  (CASE tool.tool = S_run_cmd -> <<"Would run: ">> \o tool.command
     [] tool.tool = S_run_python -> <<"Would run Python:\n">> \o tool.code
     [] tool.tool = S_read_file -> <<"Would read: ">> \o tool.path
     [] tool.tool = S_write_file ->
          <<"Would write ">> \o ToDecimal(Len(tool.content)) \o <<" bytes to: ">> \o tool.path
     [] tool.tool = S_search ->
          <<"Would search '">> \o tool.pattern \o <<"' in ">> \o tool.directory
     [] OTHER -> <<"Would execute: ">> \o tool.tool)

\* A plausible slip: the test of the buffer forgotten, so Enter confirms an empty action.
ReviewEnter_NoBufferCheck ==
  /\ Running /\ state = "ReviewAction"
  /\ (safe_mode /\ IsSome(current_tool)) => Room
  /\ LET s1 == App_transition_state(state, <<"ConfirmCommand">>)
         em1 == App_transition_error(error_message, state, <<"ConfirmCommand">>)
     IN /\ current_command' = Some(get_action_text(action_textarea))
        /\ IF IsSome(current_tool) /\ safe_mode
           THEN /\ messages' =
                     Append(messages, Message("System", SafeModeText(Unwrap(current_tool))))
                /\ state' = App_transition_state(s1, <<"AnalysisComplete">>)
                /\ error_message' = App_transition_error(em1, s1, <<"AnalysisComplete">>)
                /\ UNCHANGED <<tasks, running_task>>
                /\ last' = Step("Key", "Enter", state, "ExecuteCommand", "none")
           ELSE IF IsSome(current_tool)
           THEN /\ tasks' = tasks \cup {ExecTask(Unwrap(current_tool))}
                /\ running_task' = Some(NewTaskId)
                /\ state' = s1
                /\ error_message' = em1
                /\ UNCHANGED messages
                /\ last' = Step("Key", "Enter", state, "ExecuteCommand", "exec")
           ELSE /\ state' = s1
                /\ error_message' = em1
                /\ UNCHANGED <<messages, tasks, running_task>>
                /\ last' = Step("Key", "Enter", state, "ExecuteCommand", "none")
  /\ UNCHANGED <<input_textarea, action_textarea, current_tool, execution_output,
                 should_quit, dangerous_command_detected, queue, edits, Fixed>>

\* A plausible slip: the flag read as a gate, so that Enter does nothing while it
\* is set.
ReviewEnter_GateBlocks ==
  /\ ~dangerous_command_detected
  /\ Running /\ state = "ReviewAction"
  /\ get_action_text(action_textarea) # <<>>
  /\ (safe_mode /\ IsSome(current_tool)) => Room
  /\ LET s1 == App_transition_state(state, <<"ConfirmCommand">>)
         em1 == App_transition_error(error_message, state, <<"ConfirmCommand">>)
     IN /\ current_command' = Some(get_action_text(action_textarea))
        /\ IF IsSome(current_tool) /\ safe_mode
           THEN /\ messages' =
                     Append(messages, Message("System", SafeModeText(Unwrap(current_tool))))
                /\ state' = App_transition_state(s1, <<"AnalysisComplete">>)
                /\ error_message' = App_transition_error(em1, s1, <<"AnalysisComplete">>)
                /\ UNCHANGED <<tasks, running_task>>
                /\ last' = Step("Key", "Enter", state, "ExecuteCommand", "none")
           ELSE IF IsSome(current_tool)
           THEN /\ tasks' = tasks \cup {ExecTask(Unwrap(current_tool))}
                /\ running_task' = Some(NewTaskId)
                /\ state' = s1
                /\ error_message' = em1
                /\ UNCHANGED messages
                /\ last' = Step("Key", "Enter", state, "ExecuteCommand", "exec")
           ELSE /\ state' = s1
                /\ error_message' = em1
                /\ UNCHANGED <<messages, tasks, running_task>>
                /\ last' = Step("Key", "Enter", state, "ExecuteCommand", "none")
  /\ UNCHANGED <<input_textarea, action_textarea, current_tool, execution_output,
                 should_quit, dangerous_command_detected, queue, edits, Fixed>>

\* Enter in ReviewAction with a non-empty action buffer: handle_review_action_state
\* sets current_command and transitions ConfirmCommand; run_loop then, for the
\* staged tool, writes the safe-mode message or spawns the executor task
ReviewEnter ==
  /\ Running /\ state = "ReviewAction"
  /\ get_action_text(action_textarea) # <<>>
  /\ (safe_mode /\ IsSome(current_tool)) => Room
  /\ LET s1 == App_transition_state(state, <<"ConfirmCommand">>)
         em1 == App_transition_error(error_message, state, <<"ConfirmCommand">>)
     IN /\ current_command' = Some(get_action_text(action_textarea))
        /\ IF IsSome(current_tool) /\ safe_mode
           THEN /\ messages' =
                     Append(messages, Message("System", SafeModeText(Unwrap(current_tool))))
                /\ state' = App_transition_state(s1, <<"AnalysisComplete">>)
                /\ error_message' = App_transition_error(em1, s1, <<"AnalysisComplete">>)
                /\ UNCHANGED <<tasks, running_task>>
                /\ last' = Step("Key", "Enter", state, "ExecuteCommand", "none")
           ELSE IF IsSome(current_tool)
           THEN /\ tasks' = tasks \cup {ExecTask(Unwrap(current_tool))}
                /\ running_task' = Some(NewTaskId)
                /\ state' = s1
                /\ error_message' = em1
                /\ UNCHANGED messages
                /\ last' = Step("Key", "Enter", state, "ExecuteCommand", "exec")
           ELSE /\ state' = s1
                /\ error_message' = em1
                /\ UNCHANGED <<messages, tasks, running_task>>
                /\ last' = Step("Key", "Enter", state, "ExecuteCommand", "none")
  /\ UNCHANGED <<input_textarea, action_textarea, current_tool, execution_output,
                 should_quit, dangerous_command_detected, queue, edits, Fixed>>

\* Enter in ReviewAction with an empty action buffer: Ignored
ReviewEnterEmpty ==
  /\ Running /\ state = "ReviewAction"
  /\ get_action_text(action_textarea) = <<>>
  /\ last' = Step("Key", "Enter", state, "Ignored", "none")
  /\ UNCHANGED <<state, input_textarea, action_textarea, messages, current_command,
                 current_tool, execution_output, error_message, should_quit,
                 dangerous_command_detected, running_task, tasks, queue, edits, Fixed>>

\* A plausible slip: the notice takes the place of the last message, the proposal
\* that was cancelled.
CancelCommand_ReplacesLast(s1, em1, aborted) ==
  /\ Room
  /\ messages' = Append(SubSeq(messages, 1, Len(messages) - 1),
                        Message("System", CommandCancelledText))
  /\ state' = App_transition_state(s1, <<"AnalysisComplete">>)
  /\ error_message' = App_transition_error(em1, s1, <<"AnalysisComplete">>)
  /\ last' = Step("Key", "Esc", state, "CancelCommand", aborted)

\* run_loop on InputResult::CancelCommand: the System message, then
\* transition(AnalysisComplete) from the state the key handler left
CancelCommand(s1, em1, aborted) ==
  /\ Room
  /\ messages' = Append(messages, Message("System", CommandCancelledText))
  /\ state' = App_transition_state(s1, <<"AnalysisComplete">>)
  /\ error_message' = App_transition_error(em1, s1, <<"AnalysisComplete">>)
  /\ last' = Step("Key", "Esc", state, "CancelCommand", aborted)

\* A plausible slip: the action textarea is reset in place and clear_action's reset
\* of the flag is lost.
ReviewEsc_KeepsFlag ==
  /\ Running /\ state = "ReviewAction"
  /\ action_textarea' = <<>>
  /\ CancelCommand(App_transition_state(state, <<"CancelCommand">>),
                   App_transition_error(error_message, state, <<"CancelCommand">>), "none")
  /\ UNCHANGED <<input_textarea, current_command, current_tool, execution_output,
                 should_quit, dangerous_command_detected, running_task, tasks, queue,
                 edits, Fixed>>

\* Esc in ReviewAction: clear_action, transition(CancelCommand), CancelCommand
ReviewEsc ==
  /\ Running /\ state = "ReviewAction"
  /\ action_textarea' = <<>>
  /\ dangerous_command_detected' = FALSE
  /\ CancelCommand(App_transition_state(state, <<"CancelCommand">>),
                   App_transition_error(error_message, state, <<"CancelCommand">>), "none")
  /\ UNCHANGED <<input_textarea, current_command, current_tool, execution_output,
                 should_quit, running_task, tasks, queue, edits, Fixed>>

\* A plausible slip: the flag is computed again from the text of the buffer after
\* every edit.
ReviewEdit_RecomputesFlag(key) ==
  /\ Running /\ state = "ReviewAction"
  /\ key \notin {<<"Enter">>, <<"Esc">>}
  /\ edits < MaxEdits
  /\ edits' = edits + 1
  /\ action_textarea' = TextAreaInput(action_textarea, key)
  /\ dangerous_command_detected' = is_dangerous(get_action_text(TextAreaInput(action_textarea, key)))
  /\ last' = Step("Key", KeyName(key), state, "Handled", "none")
  /\ UNCHANGED <<state, input_textarea, messages, current_command, current_tool,
                 execution_output, error_message, should_quit,
                 running_task, tasks, queue, Fixed>>

\* any other key in ReviewAction goes to the action textarea
ReviewEdit(key) ==
  /\ Running /\ state = "ReviewAction"
  /\ key \notin {<<"Enter">>, <<"Esc">>}
  /\ edits < MaxEdits
  /\ edits' = edits + 1
  /\ action_textarea' = TextAreaInput(action_textarea, key)
  /\ last' = Step("Key", KeyName(key), state, "Handled", "none")
  /\ UNCHANGED <<state, input_textarea, messages, current_command, current_tool,
                 execution_output, error_message, should_quit,
                 dangerous_command_detected, running_task, tasks, queue, Fixed>>

\* A plausible slip: the cancellation of a running task returns to Input without
\* the notice in the conversation.
BlockedEsc_NoNotice ==
  /\ Running /\ state \in {"Executing", "Finalizing"}
  /\ tasks' = MarkTasks(Abort(tasks, running_task))
  /\ running_task' = None
  /\ queue' = MarkEvents(queue)
  /\ state' = App_transition_state(state, <<"AnalysisComplete">>)
  /\ error_message' = App_transition_error(error_message, state, <<"AnalysisComplete">>)
  /\ last' = Step("Key", "Esc", state, "CancelCommand",
                  IF Abort(tasks, running_task) # tasks THEN "aborted" ELSE "none")
  /\ UNCHANGED <<input_textarea, action_textarea, messages, current_command, current_tool,
                 execution_output, should_quit, dangerous_command_detected,
                 edits, Fixed>>

\* Esc in Executing or Finalizing: cancel_task aborts the stored handle, then
\* CancelCommand
BlockedEsc ==
  /\ Running /\ state \in {"Executing", "Finalizing"}
  /\ tasks' = MarkTasks(Abort(tasks, running_task))
  /\ running_task' = None
  /\ queue' = MarkEvents(queue)
  /\ CancelCommand(state, error_message,
                   IF Abort(tasks, running_task) # tasks THEN "aborted" ELSE "none")
  /\ UNCHANGED <<input_textarea, action_textarea, current_command, current_tool,
                 execution_output, should_quit, dangerous_command_detected,
                 edits, Fixed>>

\* A plausible slip: the catch-all arm copied from handle_input_state, so the key
\* reaches the input textarea while the task runs.
BlockedKey_EditsInput(key) ==
  /\ Running /\ state \in {"Executing", "Finalizing"}
  /\ key # <<"Esc">>
  /\ key[1] = "Char" => Len(input_textarea) < MaxInput
  /\ input_textarea' = TextAreaInput(input_textarea, key)
  /\ last' = Step("Key", KeyName(key), state, "Handled", "none")
  /\ UNCHANGED <<state, action_textarea, messages, current_command,
                 current_tool, execution_output, error_message, should_quit,
                 dangerous_command_detected, running_task, tasks, queue, edits, Fixed>>

\* any other key in Executing or Finalizing: Blocked
BlockedKey(key) ==
  /\ Running /\ state \in {"Executing", "Finalizing"}
  /\ key # <<"Esc">>
  /\ last' = Step("Key", KeyName(key), state, "Blocked", "none")
  /\ UNCHANGED <<state, input_textarea, action_textarea, messages, current_command,
                 current_tool, execution_output, error_message, should_quit,
                 dangerous_command_detected, running_task, tasks, queue, edits, Fixed>>

\* Event::Key(key) without Ctrl: handle_key_event dispatches on the state, and
\* run_loop acts on the InputResult
KeyEvent(key) ==
  CASE state = "Input" ->
         IF key = <<"Enter">> THEN InputEnterEmpty \/ InputEnterSlash \/ InputEnterQuery
         ELSE IF key = <<"Esc">> THEN InputEsc
         ELSE InputEdit(key)
    [] state = "Thinking" -> ThinkingKey(key)
    [] state = "ReviewAction" ->
         IF key = <<"Enter">> THEN ReviewEnter \/ ReviewEnterEmpty
         ELSE IF key = <<"Esc">> THEN ReviewEsc
         ELSE ReviewEdit(key)
    [] state \in {"Executing", "Finalizing"} ->
         IF key = <<"Esc">> THEN BlockedEsc ELSE BlockedKey(key)
    [] OTHER -> FALSE

\* Event::Tick and Event::Resize: only the spinner moves
TickOrResize ==
  /\ Running
  /\ UNCHANGED vars

(* ---------------------------------------------------------------------- *)
(* Background tasks post their event                                       *)
(* ---------------------------------------------------------------------- *)

\* a model call returns and the task sends Event::ApiResponse
ChatPosts(t, outcome) ==
  /\ Running
  /\ t.kind = "chat"
  /\ tasks' = tasks \ {t}
  /\ queue' = Append(queue, <<"ApiResponse", outcome, t.cancelled>>)
  /\ UNCHANGED <<last, state, input_textarea, action_textarea, messages, current_command,
                 current_tool, execution_output, error_message, should_quit,
                 dangerous_command_detected, running_task, edits, Fixed>>

\* execute_tool_async returns and the task sends Event::CommandComplete
ExecPosts(t, result) ==
  /\ Running
  /\ t.kind = "exec"
  /\ tasks' = tasks \ {t}
  /\ queue' = Append(queue, <<"CommandComplete", result, t.cancelled>>)
  /\ UNCHANGED <<last, state, input_textarea, action_textarea, messages, current_command,
                 current_tool, execution_output, error_message, should_quit,
                 dangerous_command_detected, running_task, edits, Fixed>>

(* ---------------------------------------------------------------------- *)
(* main.rs: run_loop, the ApiResponse and CommandComplete branches         *)
(* ---------------------------------------------------------------------- *)

\* the display text of a tool call in the review buffer
DisplayText(tc) ==
  CASE tc.tool = S_run_cmd -> tc.command
    [] tc.tool = S_run_python -> <<"p", "y", "t", "h", "o", "n", ":", "\n">> \o tc.code
    [] tc.tool = S_read_file ->
         <<"r", "e", "a", "d", "_", "f", "i", "l", "e", ":", " ">> \o tc.path
    [] tc.tool = S_write_file ->
         <<"w", "r", "i", "t", "e", "_", "f", "i", "l", "e", ":", " ">> \o tc.path \o
         <<" ", "(">> \o ToDecimal(Len(tc.content)) \o <<" ", "b", "y", "t", "e", "s", ")">>
    [] tc.tool = S_search ->
         <<"s", "e", "a", "r", "c", "h", ":", " ">> \o tc.pattern \o <<" ", "i", "n", " ">> \o
         (IF tc.directory = <<>> THEN <<".">> ELSE tc.directory)
    [] OTHER -> <<"ToolCall ">> \o tc.tool

\* InteractiveCommandDetector::suggestion, with the default text of run_loop
SuggestionText(command) ==
  LET words == SelectSeq(SplitOn(Trim(command), " ", <<>>), LAMBDA w : w # <<>>)
      cmd == IF words = <<>> THEN <<>> ELSE words[1]
  IN CASE cmd \in {<<"n", "a", "n", "o">>, <<"v", "i", "m">>, <<"v", "i">>,
                   <<"e", "m", "a", "c", "s">>} ->
            <<"Use /save or write_file tool instead">>
       [] cmd \in {<<"l", "e", "s", "s">>, <<"m", "o", "r", "e">>, <<"m", "a", "n">>} ->
            <<"Use cat or read_file tool instead">>
       [] cmd \in {<<"s", "s", "h">>, <<"t", "e", "l", "n", "e", "t">>} ->
            <<"Interactive sessions not supported">>
       [] cmd \in {<<"h", "t", "o", "p">>, <<"t", "o", "p">>} ->
            <<"Use 'ps aux' or 'ps aux | head' instead">>
       [] OTHER -> <<"This command requires an interactive terminal">>

\* A plausible slip: only the command detector is asked, is_destructive forgotten.
DangerousOperation_DetectorOnly(tc) == is_run_cmd(tc) /\ is_dangerous(tc.command)

\* the check for dangerous operations of the ApiResponse branch
DangerousOperation(tc) ==
  is_destructive(tc) \/ (is_run_cmd(tc) /\ is_dangerous(tc.command))

\* A plausible slip: the branch starts by clearing the review buffer.
ApiResponseBase_ClearedAction ==
  [messages |-> messages, action_textarea |-> <<>>,
   current_tool |-> current_tool,
   dangerous_command_detected |-> dangerous_command_detected,
   error_message |-> error_message, event |-> <<"ApiError">>]

\* the fields the ApiResponse branch starts from, with the event of its Err arm
ApiResponseBase ==
  [messages |-> messages, action_textarea |-> action_textarea,
   current_tool |-> current_tool,
   dangerous_command_detected |-> dangerous_command_detected,
   error_message |-> error_message, event |-> <<"ApiError">>]

\* the Ok arm of the ApiResponse branch once the text is in the conversation (msgs1)
\* and parsed
ApiResponseParsed(msgs1, parsed) ==
  LET tc == parsed[2]
  IN IF parsed[1] = "TextResponse"
     THEN [ApiResponseBase EXCEPT !.messages = msgs1, !.event = <<"TextResponseReceived">>]
     ELSE IF is_run_cmd(tc) /\ is_interactive(tc.command)
     THEN [ApiResponseBase EXCEPT
             !.messages = Append(msgs1, Message("Model",
                <<"Cannot run interactive command: ">> \o tc.command \o <<"\n">> \o
                SuggestionText(tc.command))),
             !.event = <<"TextResponseReceived">>]
     ELSE IF tc.tool = S_run_python /\ ~python_available
     THEN [ApiResponseBase EXCEPT
             !.messages = Append(msgs1, Message("Model",
                <<"Python is not available on this system.">>)),
             !.event = <<"TextResponseReceived">>]
     ELSE IF ~is_allowed_tool(tc)
     THEN [ApiResponseBase EXCEPT
             !.messages = Append(msgs1, Message("System",
                <<"Blocked unknown tool: ">> \o tc.tool)),
             !.action_textarea = set_action_text(DisplayText(tc)),
             !.current_tool = Some(tc),
             !.dangerous_command_detected = DangerousOperation(tc),
             !.event = <<"TextResponseReceived">>]
     ELSE [ApiResponseBase EXCEPT
             !.messages = msgs1,
             !.action_textarea = set_action_text(DisplayText(tc)),
             !.current_tool = Some(tc),
             !.dangerous_command_detected = DangerousOperation(tc),
             !.event = <<"ToolCallReceived">>]

\* A plausible slip: the Err arm also shows the error in the conversation.
ApiResponseEffect_ErrInChat(response) ==
  IF response[1] = "Err"
  THEN [ApiResponseBase EXCEPT !.error_message = Some(response[2]),
                               !.messages = Append(messages, Message("System", response[2]))]
  ELSE ApiResponseParsed(Append(messages, Message("Model", response[2])),
                         ParsedResponse_parse(response[2]))

\* the ApiResponse branch up to its call of app.transition: the fields it leaves
\* and the StateEvent it passes
ApiResponseEffect(response) ==
  IF response[1] = "Err"
  THEN [ApiResponseBase EXCEPT !.error_message = Some(response[2])]
  ELSE ApiResponseParsed(Append(messages, Message("Model", response[2])),
                         ParsedResponse_parse(response[2]))

\* run_loop takes Event::ApiResponse from the channel
HandleApiResponse ==
  /\ Running /\ Room
  /\ queue # <<>> /\ Head(queue)[1] = "ApiResponse"
  /\ queue' = Tail(queue)
  /\ \E eff \in {ApiResponseEffect(Head(queue)[2])} :
        /\ messages' = eff.messages
        /\ action_textarea' = eff.action_textarea
        /\ current_tool' = eff.current_tool
        /\ dangerous_command_detected' = eff.dangerous_command_detected
        /\ edits' = IF eff.action_textarea = action_textarea /\ eff.current_tool = current_tool
                    THEN edits ELSE 0
        /\ state' = App_transition_state(state, eff.event)
        /\ error_message' = App_transition_error(eff.error_message, state, eff.event)
  /\ last' = Step("ApiResponse", Head(queue)[2][1], state, None, "none")
  /\ UNCHANGED <<input_textarea, current_command, execution_output, should_quit,
                 running_task, tasks, Fixed>>

\* the observation text of the CommandComplete branch
FeedbackText(tool, result, output) ==
  LET tool_desc ==
        IF IsSome(tool)
        THEN Unwrap(tool).tool \o <<":", " ">> \o
             (IF Unwrap(tool).tool = S_run_cmd THEN Unwrap(tool).command
              ELSE Unwrap(tool).path)
        ELSE <<>>
  IN <<"Tool: ">> \o tool_desc \o <<"\nExit code: ">> \o IntToString(result.exit_code) \o
     <<"\nOutput:\n">> \o output

\* run_loop takes Event::CommandComplete from the channel
HandleCommandComplete ==
  /\ Running /\ Room
  /\ queue # <<>> /\ Head(queue)[1] = "CommandComplete"
  /\ queue' = Tail(queue)
  /\ running_task' = None
  /\ LET result == Head(queue)[2]
         output == IF result.success THEN result.stdout
                   ELSE result.stdout \o <<"\n">> \o result.stderr
         msgs1 == Append(messages, Message("User", FeedbackText(current_tool, result, output)))
         s1 == App_transition_state(state, <<"CommandComplete">>)
         em1 == App_transition_error(error_message, state, <<"CommandComplete">>)
     IN /\ execution_output' = output
        /\ messages' = msgs1
        /\ IF ai_client
           THEN /\ tasks' = tasks \cup {ChatTask(msgs1)}
                /\ state' = s1
                /\ error_message' = em1
                /\ last' = Step("CommandComplete", None, state, None, "chat")
           ELSE /\ tasks' = tasks
                /\ state' = App_transition_state(s1, <<"AnalysisComplete">>)
                /\ error_message' = App_transition_error(em1, s1, <<"AnalysisComplete">>)
                /\ last' = Step("CommandComplete", None, state, None, "none")
  /\ UNCHANGED <<input_textarea, action_textarea, current_command, current_tool,
                 should_quit, dangerous_command_detected, edits, Fixed>>

Next ==
  \/ KeyCtrlC
  \/ InputEnterEmpty
  \/ InputEnterSlash
  \/ InputEnterQuery
  \/ InputEsc
  \/ \E key \in Keys : InputEdit(key)
  \/ \E key \in Keys : ThinkingKey(key)
  \/ ReviewEnter
  \/ ReviewEnterEmpty
  \/ ReviewEsc
  \/ \E key \in Keys : ReviewEdit(key)
  \/ BlockedEsc
  \/ \E key \in Keys : BlockedKey(key)
  \/ TickOrResize
  \/ \E t \in {x \in tasks : x.kind = "chat"} : \E outcome \in ChatOutcomes :
       ChatPosts(t, outcome)
  \/ \E t \in {x \in tasks : x.kind = "exec"} : \E result \in ExecOutcomes(Unwrap(t.tool)) :
       ExecPosts(t, result)
  \/ HandleApiResponse
  \/ HandleCommandComplete

Spec == Init /\ [][Next]_vars

(* ---------------------------------------------------------------------- *)
(* The state machine on its own: every (state, event) pair                 *)
(* ---------------------------------------------------------------------- *)

InitTransition ==
  /\ state \in AppStates
  /\ input_textarea = <<>>
  /\ action_textarea = <<>>
  /\ messages = <<>>
  /\ current_command = None
  /\ current_tool = None
  /\ execution_output = <<>>
  /\ error_message = None
  /\ should_quit = FALSE
  /\ dangerous_command_detected = FALSE
  /\ running_task = None
  /\ python_available = TRUE
  /\ safe_mode = FALSE
  /\ ai_client = TRUE
  /\ tasks = {}
  /\ queue = <<>>
  /\ edits = 0
  /\ last = Step("Init", None, state, None, "none")

\* one call app.transition(event)
ApplyTransition(event) ==
  /\ state' = App_transition_state(state, event)
  /\ error_message' = App_transition_error(error_message, state, event)
  /\ last' = Step("transition", event, state, transition(state, event),
                  App_transition_ret(state, event))
  /\ UNCHANGED <<input_textarea, action_textarea, messages, current_command,
                 current_tool, execution_output, should_quit,
                 dangerous_command_detected, running_task, python_available,
                 safe_mode, ai_client, tasks, queue, edits>>

NextTransition == \E event \in StateEvents : ApplyTransition(event)

SpecTransition == InitTransition /\ [][NextTransition]_vars

\* the table of the specification, section 4.5
TableTarget(s, e) ==
  CASE s = "Input" /\ e = SubmitInput(FALSE) -> "Thinking"
    [] s = "Input" /\ e = <<"Escape">> -> "Done"
    [] s = "Thinking" /\ e = <<"ToolCallReceived">> -> "ReviewAction"
    [] s = "Thinking" /\ e = <<"TextResponseReceived">> -> "Input"
    [] s = "Thinking" /\ e = <<"ApiError">> -> "Input"
    [] s = "ReviewAction" /\ e = <<"ConfirmCommand">> -> "Executing"
    [] s = "ReviewAction" /\ e = <<"CancelCommand">> -> "Input"
    [] s = "ReviewAction" /\ e = <<"Escape">> -> "Input"
    [] s = "Executing" /\ e = <<"CommandComplete">> -> "Finalizing"
    [] s = "Finalizing" /\ e = <<"ToolCallReceived">> -> "ReviewAction"
    [] s = "Finalizing" /\ e = <<"TextResponseReceived">> -> "Input"
    [] s = "Finalizing" /\ e = <<"AnalysisComplete">> -> "Input"
    [] s = "Finalizing" /\ e = <<"ApiError">> -> "Input"
    [] s = "Done" /\ e = <<"Continue">> -> "Input"
    [] OTHER -> "none"

\* C1: transition(s, e) is Success(target) exactly for the fourteen pairs of
\* the table, Ignored for Input with an empty submit, and Error for every
\* other pair; App::transition changes the state only on Success, to the
\* target, and returns true exactly then.
C1_TransitionTable ==
  last.ev = "transition" =>
    LET s == last.pre
        e == last.arg
        r == last.res
    IN /\ TableTarget(s, e) # "none" => r = Success(TableTarget(s, e))
       /\ (s = "Input" /\ e = SubmitInput(TRUE)) => r = Ignored
       /\ (TableTarget(s, e) = "none" /\ ~(s = "Input" /\ e = SubmitInput(TRUE)))
            => r[1] = "Error"
       /\ state = (IF r[1] = "Success" THEN r[2] ELSE s)
       /\ last.spawned = (r[1] = "Success")
       /\ state \in AppStates

\* C1 witness: an accepted pair was applied and the state moved to its target
C1_Witness ==
  /\ last.ev = "transition"
  /\ last.pre = "Executing"
  /\ last.arg = <<"CommandComplete">>
  /\ state = "Finalizing"

\* a rejected pair was applied: the state stayed and the error is recorded
C1_WitnessError ==
  /\ last.ev = "transition"
  /\ last.pre = "Executing"
  /\ last.arg = <<"AnalysisComplete">>
  /\ state = "Executing"
  /\ IsSome(error_message)

(* ---------------------------------------------------------------------- *)
(* Submitting a buffer in Input: every short text, whitespace included      *)
(* ---------------------------------------------------------------------- *)

\* longest buffer submitted
MaxSubmitLen == 3

\* the characters of the submitted buffers
SubmitChars == {" ", "\t", "\n", "\r", "q", "/"}

\* the slash commands typed, with and without an argument, in either case
SlashTexts ==
  {S_clear, S_help, <<" ", "/", "H", "E", "L", "P", " ", "x">>, S_new, S_sessions,
   S_switch, S_switch \o <<" ", "s">>, S_delete, S_delete \o <<" ", " ", "s">>,
   S_quit, S_exit, <<"/", "b", "o", "g", "u", "s">>}

InitSubmit ==
  /\ state = "Input"
  /\ input_textarea \in SeqsUpTo(SubmitChars, MaxSubmitLen) \cup SlashTexts
  /\ action_textarea = <<>>
  /\ messages \in {<<Message("System", SystemPromptText)>>,
                   <<Message("System", SystemPromptText), Message("User", <<"a">>),
                     Message("Model", <<"b">>)>>}
  /\ current_command = None
  /\ current_tool = None
  /\ execution_output = <<>>
  /\ error_message = None
  /\ should_quit = FALSE
  /\ dangerous_command_detected = FALSE
  /\ running_task = None
  /\ python_available = TRUE
  /\ safe_mode = FALSE
  /\ ai_client \in BOOLEAN
  /\ tasks = {}
  /\ queue = <<>>
  /\ edits = 0
  /\ last = Step("Init", None, "Input", None, "none")

NextSubmit ==
  \/ InputEnterEmpty
  \/ InputEnterSlash
  \/ InputEnterQuery

SpecSubmit == InitSubmit /\ [][NextSubmit]_vars

(* ---------------------------------------------------------------------- *)
(* Properties of the event loop                                            *)
(* ---------------------------------------------------------------------- *)

\* a step spawned an executor task
ExecSpawned == \E t \in tasks' : t.kind = "exec" /\ t.id \notin {u.id : u \in tasks}

\* a step put a CommandComplete event on the channel
CommandCompletePosted ==
  /\ Len(queue') = Len(queue) + 1
  /\ queue'[Len(queue')][1] = "CommandComplete"

\* C2: an executor task is spawned only by the handling of Enter in ReviewAction
\* with a non-empty action buffer and a staged tool, in the step whose
\* ConfirmCommand transition succeeds, and it runs the staged tool; a
\* CommandComplete event is only ever posted by such a task.
C2_ExecutorOnlyOnConfirm ==
  [][/\ ExecSpawned =>
          /\ state = "ReviewAction"
          /\ Trim(action_textarea) # <<>>
          /\ IsSome(current_tool)
          /\ last'.ev = "Key" /\ last'.arg = "Enter" /\ last'.spawned = "exec"
          /\ transition(state, <<"ConfirmCommand">>) = Success(state')
          /\ \E t \in tasks' :
               /\ tasks' = tasks \cup {t}
               /\ t.kind = "exec"
               /\ t.tool = current_tool
               /\ running_task' = Some(t.id)
     /\ CommandCompletePosted =>
          \E t \in tasks : t.kind = "exec" /\ tasks' = tasks \ {t}
    ]_vars

\* C2 witness: Enter in ReviewAction has spawned the executor task
C2_Witness ==
  /\ last.ev = "Key" /\ last.arg = "Enter" /\ last.pre = "ReviewAction"
  /\ last.spawned = "exec"
  /\ state = "Executing"
  /\ \E t \in tasks : t.kind = "exec" /\ running_task = Some(t.id)

\* C3: while the loop runs, at most one background task (a model call or an
\* executor call) is in flight.
C3_AtMostOneTask == Running => Cardinality(tasks) <= 1

\* C4: while the loop runs, background work is pending (a task in flight, or its
\* event not yet taken from the channel) if and only if the state is one of
\* Thinking, Executing, Finalizing.
C4_TaskIffBusyState ==
  Running =>
    ((tasks # {} \/ queue # <<>>) <=> state \in {"Thinking", "Executing", "Finalizing"})

\* C5: handling Esc in Executing aborts and clears the executor handle, appends
\* exactly one System message "Command cancelled" and leaves the state Input.
C5_EscInExecuting ==
  [][(state = "Executing" /\ BlockedEsc) =>
       /\ running_task' = None
       /\ ~(\E t \in tasks' : t.kind = "exec")
       /\ messages' = Append(messages, Message("System", CommandCancelledText))
       /\ state' = "Input"
    ]_vars

\* C6: an ApiResponse or CommandComplete event of a turn that Esc cancelled is
\* discarded when the loop takes it: the state, the conversation, the action
\* buffer, the pending tool and error_message stay, and no task is spawned.
C6_LateEventsDiscarded ==
  [][(queue # <<>> /\ Head(queue)[3] /\ queue' = Tail(queue)) =>
       /\ UNCHANGED <<state, messages, action_textarea, current_tool, error_message>>
       /\ tasks' = tasks
    ]_vars

\* C7: after Esc was handled in Thinking, Executing or Finalizing, running_task
\* is None and no task spawned for the turn remains in flight (a loop that
\* quits takes its tasks with it).
C7_EscAbortsTask ==
  (last.ev = "Key" /\ last.arg = "Esc" /\ last.pre \in {"Thinking", "Executing", "Finalizing"})
    => (should_quit \/ (running_task = None /\ tasks = {}))

\* the field of a tool call that the review buffer edits
PrimaryField(tc) == IF tc.tool = S_run_python THEN tc.code ELSE tc.command

\* C8: the run_cmd or run_python tool handed to the executor by Enter in
\* ReviewAction has its command (or code) equal to the text b of the action
\* buffer at that Enter, which the handler keeps in current_command.
C8_ExecutorGetsEditedBuffer ==
  (last.ev = "Key" /\ last.arg = "Enter" /\ last.spawned = "exec") =>
    \A t \in tasks :
      (t.kind = "exec" /\ running_task = Some(t.id) /\
       Unwrap(t.tool).tool \in {S_run_cmd, S_run_python})
        => PrimaryField(Unwrap(t.tool)) = Unwrap(current_command)

\* C9: with safe_mode, Enter in ReviewAction on a staged tool spawns no task,
\* appends exactly one System message saying what would run, and leaves the
\* state Input.
C9_SafeModeReturnsToInput ==
  [][(state = "ReviewAction" /\ safe_mode /\ IsSome(current_tool) /\ ReviewEnter) =>
       /\ tasks' = tasks
       /\ running_task' = running_task
       /\ messages' = Append(messages, Message("System", SafeModeText(Unwrap(current_tool))))
       /\ state' = "Input"
    ]_vars

\* the buffer holds nothing but whitespace
AllWhitespace(text) == \A i \in 1..Len(text) : IsWhitespace(text[i])

\* C10: submitting a buffer of whitespace only (the empty one included) in Input
\* returns Empty, leaves the state Input and the conversation unchanged, and
\* spawns no model call.
C10_WhitespaceSubmit ==
  [][(state = "Input" /\ AllWhitespace(input_textarea)) =>
       /\ last'.ev = "Key" /\ last'.arg = "Enter" /\ last'.res = "Empty"
       /\ state' = "Input"
       /\ messages' = messages
       /\ tasks' = tasks
       /\ input_textarea' = input_textarea
    ]_vars

\* C10 witness: a non-empty buffer of whitespace was submitted and is still there
C10_Witness ==
  /\ last.ev = "Key" /\ last.arg = "Enter" /\ last.res = "Empty"
  /\ state = "Input"
  /\ input_textarea # <<>> /\ AllWhitespace(input_textarea)
  /\ Len(messages) = 1 /\ tasks = {}

\* the buffer holds a query: some character is not whitespace and the trimmed
\* text is not a slash command
IsQuery(text) == ~AllWhitespace(text) /\ ~StartsWith(Trim(text), <<"/">>)

C12_BlockedKeysChangeNothing ==
  [][\A key \in Keys \ {<<"Esc">>} :
       (blocks_input(state) /\ KeyEvent(key)) =>
          /\ last'.ev = "Key" /\ last'.res = "Blocked"
          /\ UNCHANGED <<input_textarea, action_textarea, messages, state>>]_vars

\* C12 witness: a key other than Esc was pressed while the executor task ran
\* and was answered with Blocked
C12_Witness ==
  /\ last.ev = "Key" /\ last.arg = "Other" /\ last.pre = "Executing"
  /\ last.res = "Blocked"
  /\ state = "Executing"
  /\ action_textarea # <<>>
  /\ \E t \in tasks : t.kind = "exec"

(* ---------------------------------------------------------------------- *)
(* One model response: the ApiResponse branch on every kind of answer, and  *)
(* the review that follows                                                 *)
(* ---------------------------------------------------------------------- *)

\* a JSON string
Quoted(s) == <<"\"">> \o s \o <<"\"">>

RECURSIVE JsonFields(_)
\* the members of a JSON object for a sequence of <<name, value>> pairs
JsonFields(fields) ==
  IF fields = <<>> THEN <<>>
  ELSE <<",">> \o Quoted(fields[1][1]) \o <<":">> \o Quoted(fields[1][2]) \o
       JsonFields(Tail(fields))

\* the JSON text of a tool call as the model writes it
ToolJson(tool, fields) ==
  <<"{">> \o Quoted(S_tool) \o <<":">> \o Quoted(tool) \o JsonFields(fields) \o <<"}">>

ResponseWriteFile == ToolJson(S_write_file, <<<<S_path, <<"f">>>>, <<S_content, <<"x">>>>>>)

\* AIError::to_string for the kinds RateLimited, Network, ApiError, InvalidResponse
\* and EmptyResponse
AIErrors ==
  {<<"Rate limit exceeded. Please wait and try again.">>,
   <<"Network error: ">> \o <<"t", "i", "m", "e", "o", "u", "t">>,
   <<"API error: ">> \o ToDecimal(500) \o <<" - ">> \o <<"d", "o", "w", "n">>,
   <<"Invalid response format: ">> \o <<"e", "o", "f">>,
   <<"Empty response from API">>}

\* Result<String, AIError> of client.chat, every kind of answer: plain text, an
\* object that is no tool call, each of the five tools, run_cmd with a command the danger patterns match (mkfs),
\* run_cmd with a command the interactive patterns match (vi), a tool outside
\* the allowed set (x), and each error kind
ResponseOutcomes ==
  {<<"Ok", r>> : r \in Responses \cup
       {ResponseWriteFile, <<"{", "}">>,
        ToolJson(S_run_cmd, <<<<S_command, <<"m", "k", "f", "s">>>>>>),
        ToolJson(S_run_cmd, <<<<S_command, <<"v", "i">>>>>>),
        ToolJson(S_run_cmd, <<<<S_command, <<" ">>>>>>),
        ToolJson(S_read_file, <<<<S_path, <<"f">>>>>>),
        ToolJson(S_search, <<<<S_pattern, <<"p">>>>>>),
        ToolJson(<<"x">>, <<<<S_command, <<"w">>>>>>)}}
  \cup {<<"Err", e>> : e \in AIErrors}

\* what an earlier turn left in the App: nothing, a run_cmd that ran, or a
\* write_file that ran
PriorTurns ==
  {[response |-> <<>>, current_tool |-> None, action_textarea |-> <<>>,
    current_command |-> None, dangerous_command_detected |-> FALSE,
    execution_output |-> <<>>],
   [response |-> ResponseRunCmd,
    current_tool |-> Some(Unwrap(ToolCall_parse(ResponseRunCmd))),
    action_textarea |-> <<"w">>, current_command |-> Some(<<"w">>),
    dangerous_command_detected |-> FALSE, execution_output |-> <<"o">>],
   [response |-> ResponseWriteFile,
    current_tool |-> Some(Unwrap(ToolCall_parse(ResponseWriteFile))),
    action_textarea |-> DisplayText(Unwrap(ToolCall_parse(ResponseWriteFile))),
    current_command |-> Some(DisplayText(Unwrap(ToolCall_parse(ResponseWriteFile)))),
    dangerous_command_detected |-> TRUE, execution_output |-> <<"o">>]}

\* the conversation when the answer arrives: in Thinking the query, after /clear
\* if a turn went before; in Finalizing the proposal and its observation
PriorMessages(s, prior) ==
  IF s = "Finalizing"
  THEN <<Message("System", SystemPromptText), Message("User", <<"q">>),
         Message("Model", prior.response),
         Message("User", <<"Tool: ">> \o Unwrap(prior.current_tool).tool \o
                         <<"\nExit code: 0\nOutput:\no">>)>>
  ELSE IF IsSome(prior.current_tool)
  THEN <<Message("System", SystemPromptText), Message("System", <<"Chat cleared.">>),
         Message("User", <<"q">>)>>
  ELSE <<Message("System", SystemPromptText), Message("User", <<"q">>)>>

\* the loop waits in Thinking or Finalizing and the answer of the model call is
\* in the channel
InitResponse ==
  /\ state \in {"Thinking", "Finalizing"}
  /\ \E prior \in PriorTurns :
       /\ state = "Finalizing" => IsSome(prior.current_tool)
       /\ current_tool = prior.current_tool
       /\ action_textarea = prior.action_textarea
       /\ current_command = prior.current_command
       /\ dangerous_command_detected = prior.dangerous_command_detected
       /\ execution_output = prior.execution_output
       /\ messages = PriorMessages(state, prior)
  /\ queue \in {<<<<"ApiResponse", outcome, FALSE>>>> : outcome \in ResponseOutcomes}
  /\ input_textarea = <<>>
  /\ error_message = None
  /\ should_quit = FALSE
  /\ running_task = None
  /\ python_available \in BOOLEAN
  /\ safe_mode \in BOOLEAN
  /\ ai_client = TRUE
  /\ tasks = {}
  /\ edits = 0
  /\ last = Step("Init", None, state, None, "none")

NextResponse ==
  \/ HandleApiResponse
  \/ ReviewEnter
  \/ ReviewEnterEmpty
  \/ ReviewEsc
  \/ \E key \in Keys : ReviewEdit(key)

SpecResponse == InitResponse /\ [][NextResponse]_vars

\* C13: Escape in ReviewAction, whatever the action buffer holds and whatever
\* the dangerous flag is, ends with the state Input, the action buffer empty
\* and dangerous_command_detected false, and spawns no executor task.
C13_ReviewEscCancels ==
  [][(state = "ReviewAction" /\ KeyEvent(<<"Esc">>)) =>
       /\ state' = "Input"
       /\ action_textarea' = <<>>
       /\ dangerous_command_detected' = FALSE
       /\ ~ExecSpawned
       /\ tasks' = tasks /\ running_task' = running_task]_vars

\* C13 witness: the proposal run_cmd mkfs raised the dangerous flag in review,
\* and Esc cancelled it
C13_Witness ==
  /\ last.ev = "Key" /\ last.arg = "Esc" /\ last.pre = "ReviewAction"
  /\ last.res = "CancelCommand"
  /\ IsSome(current_tool) /\ is_dangerous(Unwrap(current_tool).command)
  /\ state = "Input"
  /\ action_textarea = <<>>
  /\ ~dangerous_command_detected
  /\ tasks = {}

\* run_loop takes from the channel an ApiResponse of the given arm (Ok or Err)
\* while the state is Thinking or Finalizing
AwaitedResponse(arm) ==
  /\ state \in {"Thinking", "Finalizing"}
  /\ queue # <<>> /\ Head(queue)[1] = "ApiResponse" /\ Head(queue)[2][1] = arm
  /\ HandleApiResponse

\* C14: for every error kind of a model call, handling ApiResponse(Err(e)) in
\* Thinking or in Finalizing sets error_message to the text of e, moves the
\* state to Input and leaves the conversation exactly as it was.
C14_ApiErrorToInput ==
  [][AwaitedResponse("Err") =>
       /\ error_message' = Some(Head(queue)[2][2])
       /\ state' = "Input"
       /\ messages' = messages]_vars

\* C14 witness: the model call made after an observation failed with the rate
\* limit; the state is Input, the error is set and the conversation still ends
\* with the observation
C14_Witness ==
  /\ last.ev = "ApiResponse" /\ last.arg = "Err" /\ last.pre = "Finalizing"
  /\ state = "Input"
  /\ error_message = Some(<<"Rate limit exceeded. Please wait and try again.">>)
  /\ Len(messages) = 4 /\ messages[4].role = "User"

\* C15: on ApiResponse(Ok(text)) in Thinking where text parses to a
\* TextResponse, the loop appends exactly one Model message with content text,
\* moves the state to Input, spawns no task, and leaves the action buffer and
\* the pending tool unchanged.
C15_TextResponseToInput ==
  [][(/\ AwaitedResponse("Ok") /\ state = "Thinking"
      /\ ParsedResponse_parse(Head(queue)[2][2])[1] = "TextResponse") =>
       /\ messages' = Append(messages, Message("Model", Head(queue)[2][2]))
       /\ state' = "Input"
       /\ tasks' = tasks /\ running_task' = running_task
       /\ action_textarea' = action_textarea
       /\ current_tool' = current_tool]_vars

\* C15 witness: the plain answer "ok" arrived in Thinking while the buffer and
\* the tool of an earlier turn were still in place; it is the last message and
\* the state is Input
C15_Witness ==
  /\ last.ev = "ApiResponse" /\ last.arg = "Ok" /\ last.pre = "Thinking"
  /\ state = "Input"
  /\ messages[Len(messages)] = Message("Model", ResponseText)
  /\ action_textarea = <<"w">>
  /\ IsSome(current_tool)
  /\ tasks = {}

\* the tool call the awaited Ok response parses to
ParsedTool == ParsedResponse_parse(Head(queue)[2][2])[2]

\* run_loop takes an Ok response in Thinking or Finalizing and the text parses
\* to a tool call
AwaitedToolCall ==
  /\ AwaitedResponse("Ok")
  /\ ParsedResponse_parse(Head(queue)[2][2])[1] = "ToolCall"

\* what C16 promises for the tool call t: staged, displayed, flagged, in review,
\* nothing spawned
StagedForReview(t) ==
  /\ current_tool' = Some(t)
  /\ action_textarea' = set_action_text(DisplayText(t))
  /\ dangerous_command_detected' =
       (t.tool = S_write_file \/ (t.tool = S_run_cmd /\ is_dangerous(t.command)))
  /\ state' = "ReviewAction"
  /\ messages' = Append(messages, Message("Model", Head(queue)[2][2]))
  /\ tasks' = tasks /\ running_task' = running_task

\* C16: on ApiResponse(Ok(text)) in Thinking or Finalizing where text parses to
\* an allowed tool call t that is not an interactive run_cmd and not a
\* run_python while Python is unavailable, the loop stages t as the pending
\* tool, loads t's display string into the action buffer, sets
\* dangerous_command_detected to exactly is_destructive(t) OR (t is run_cmd AND
\* is_dangerous(t.command)), and moves the state to ReviewAction without
\* spawning any task.
C16_ToolCallStaged ==
  [][(/\ AwaitedToolCall
      /\ is_allowed_tool(ParsedTool)
      /\ ~(is_run_cmd(ParsedTool) /\ is_interactive(ParsedTool.command))
      /\ ~(ParsedTool.tool = S_run_python /\ ~python_available)) =>
       StagedForReview(ParsedTool)]_vars

\* C16 witness: write_file f arrived in Finalizing after a run_cmd; it is staged
\* with its display text and the dangerous flag, and the state is ReviewAction
C16_Witness ==
  /\ last.ev = "ApiResponse" /\ last.arg = "Ok" /\ last.pre = "Finalizing"
  /\ state = "ReviewAction"
  /\ IsSome(current_tool) /\ Unwrap(current_tool).tool = S_write_file
  /\ action_textarea = <<"w", "r", "i", "t", "e", "_", "f", "i", "l", "e", ":", " ", "f",
                          " ", "(", "1", " ", "b", "y", "t", "e", "s", ")">>
  /\ dangerous_command_detected
  /\ messages[3].content = ResponseRunCmd
  /\ tasks = {}

\* C16 as stated, for every allowed tool call that is not an interactive
\* run_cmd: run_python with Python unavailable breaks it.
C16_AnyAllowedToolStaged ==
  [][(/\ AwaitedToolCall
      /\ is_allowed_tool(ParsedTool)
      /\ ~(is_run_cmd(ParsedTool) /\ is_interactive(ParsedTool.command))) =>
       StagedForReview(ParsedTool)]_vars

\* C17: when the response parses to a run_cmd whose command the interactive
\* classifier matches, in Thinking or in Finalizing, the loop does not enter
\* ReviewAction and stages nothing: the pending tool, the action buffer and the
\* tasks stay as they were, the conversation gains the response and then a
\* Model message that names the command and carries the suggestion, and the
\* event ends in Input. No executor task ever holds an interactive run_cmd.
C17_InteractiveRefused ==
  /\ [](\A t \in tasks :
          t.kind = "exec" =>
            ~(Unwrap(t.tool).tool = S_run_cmd /\ is_interactive(Unwrap(t.tool).command)))
  /\ [][(/\ AwaitedToolCall
         /\ ParsedTool.tool = S_run_cmd
         /\ is_interactive(ParsedTool.command)) =>
          /\ state' = "Input"
          /\ current_tool' = current_tool
          /\ action_textarea' = action_textarea
          /\ tasks' = tasks /\ running_task' = running_task
          /\ \E msg \in {messages'[Len(messages')]} :
               /\ messages' = Append(Append(messages, Message("Model", Head(queue)[2][2])), msg)
               /\ msg.role = "Model"
               /\ msg.content = <<"Cannot run interactive command: ">> \o ParsedTool.command \o
                                <<"\n">> \o SuggestionText(ParsedTool.command)]_vars

\* C17 witness: run_cmd vi arrived in Finalizing; the state is Input, the tool
\* that ran before is still the pending one, and the last message refuses vi
\* with the suggestion for editors
C17_Witness ==
  /\ last.ev = "ApiResponse" /\ last.arg = "Ok" /\ last.pre = "Finalizing"
  /\ state = "Input"
  /\ Len(messages) = 6
  /\ ToolCall_parse(messages[5].content) # None
  /\ Unwrap(ToolCall_parse(messages[5].content)).command = <<"v", "i">>
  /\ messages[6] = Message("Model", <<"Cannot run interactive command: ", "v", "i", "\n",
                                      "Use /save or write_file tool instead">>)
  /\ IsSome(current_tool) /\ Unwrap(current_tool).command # <<"v", "i">>
  /\ tasks = {}

\* C18: when the parsed tool's discriminator is not one of run_cmd, run_python,
\* read_file, write_file, search, the loop appends a System message stating
\* "Blocked unknown tool", ends the event in Input without entering
\* ReviewAction, and does not stage the tool: the pending tool, the action
\* buffer and dangerous_command_detected are as they were before the response.
C18_UnknownToolNotStaged ==
  [][(/\ AwaitedToolCall
      /\ ParsedTool.tool \notin {S_run_cmd, S_run_python, S_read_file, S_write_file,
                                 S_search}) =>
       /\ messages' = Append(Append(messages, Message("Model", Head(queue)[2][2])),
                             Message("System", <<"Blocked unknown tool: ">> \o ParsedTool.tool))
       /\ state' = "Input"
       /\ current_tool' = current_tool
       /\ action_textarea' = action_textarea
       /\ dangerous_command_detected' = dangerous_command_detected]_vars

\* the part of C18 that holds: the System message is appended and the event
\* ends in Input
C18_UnknownToolBlocked ==
  [][(/\ AwaitedToolCall
      /\ ParsedTool.tool \notin {S_run_cmd, S_run_python, S_read_file, S_write_file,
                                 S_search}) =>
       /\ messages' = Append(Append(messages, Message("Model", Head(queue)[2][2])),
                             Message("System", <<"Blocked unknown tool: ">> \o ParsedTool.tool))
       /\ state' = "Input"
       /\ tasks' = tasks]_vars

\* the primary field of a tool as the observation is specified to show it
ObservedPrimary(tc) ==
  CASE tc.tool = S_run_cmd -> tc.command
    [] tc.tool = S_run_python -> tc.code
    [] OTHER -> tc.path

\* the observation C19 specifies for the tool tc and the result r
ObservationText(tc, r) ==
  <<"Tool: ">> \o tc.tool \o <<":", " ">> \o ObservedPrimary(tc) \o
  <<"\nExit code: ">> \o IntToString(r.exit_code) \o <<"\nOutput:\n">> \o
  (IF r.success THEN r.stdout ELSE r.stdout \o <<"\n">> \o r.stderr)

\* run_loop takes CommandComplete from the channel in Executing, a tool pending
CommandCompleteInExecuting ==
  /\ state = "Executing" /\ IsSome(current_tool)
  /\ queue # <<>> /\ Head(queue)[1] = "CommandComplete"
  /\ HandleCommandComplete

\* what C19 promises once the observation text is fixed: one User message with
\* it, the state Finalizing, and one new model call on the new conversation
ObservedAndFinalizing(text) ==
  /\ messages' = Append(messages, Message("User", text))
  /\ state' = "Finalizing"
  /\ \E t \in tasks' : /\ t \notin tasks /\ tasks' = tasks \cup {t}
                       /\ t.kind = "chat" /\ t.messages = messages'

\* C19: on CommandComplete(r) in Executing the loop appends exactly one User
\* message "Tool: <tool>: <primary>\nExit code: <r.exit_code>\nOutput:\n<out>",
\* <primary> the command for run_cmd, the code for run_python and the path for
\* read_file and write_file, <out> r.stdout when r.success and r.stdout + "\n" +
\* r.stderr otherwise, then moves the state to Finalizing and spawns exactly one
\* model call on the conversation that includes that message.
C19_Observation ==
  [][(CommandCompleteInExecuting /\ ai_client) =>
       ObservedAndFinalizing(ObservationText(Unwrap(current_tool), Head(queue)[2]))]_vars

\* the part of C19 that holds: the same for a run_cmd
C19_ObservationRunCmd ==
  [][(CommandCompleteInExecuting /\ ai_client /\ Unwrap(current_tool).tool = S_run_cmd) =>
       ObservedAndFinalizing(ObservationText(Unwrap(current_tool), Head(queue)[2]))]_vars

(* ---------------------------------------------------------------------- *)
(* Progress of a turn: one query, from its submit on                       *)
(* ---------------------------------------------------------------------- *)

\* the user has typed the query "q"
InitTurn ==
  /\ state = "Input"
  /\ input_textarea = <<"q">>
  /\ action_textarea = <<>>
  /\ messages = <<Message("System", SystemPromptText)>>
  /\ current_command = None
  /\ current_tool = None
  /\ execution_output = <<>>
  /\ error_message = None
  /\ should_quit = FALSE
  /\ dangerous_command_detected = FALSE
  /\ running_task = None
  /\ python_available \in BOOLEAN
  /\ safe_mode \in BOOLEAN
  /\ ai_client \in BOOLEAN
  /\ tasks = {}
  /\ queue = <<>>
  /\ edits = 0
  /\ last = Step("Init", None, "Input", None, "none")

\* the steps of a turn: the submit, the answers of the model, Enter in review,
\* the executor and the observation
NextTurn ==
  \/ InputEnterQuery
  \/ \E t \in {x \in tasks : x.kind = "chat"} : \E outcome \in ChatOutcomes :
       ChatPosts(t, outcome)
  \/ HandleApiResponse
  \/ ReviewEnter
  \/ \E t \in {x \in tasks : x.kind = "exec"} : \E result \in ExecOutcomes(Unwrap(t.tool)) :
       ExecPosts(t, result)
  \/ HandleCommandComplete

\* HandleApiResponse is enabled
ApiResponseAwaits ==
  Running /\ Room /\ queue # <<>> /\ Head(queue)[1] = "ApiResponse"

\* What the claim on progress assumes of the surroundings: the loop takes every
\* event the channel holds; a spawned model call posts its ApiResponse and a
\* spawned executor its CommandComplete; the user presses Enter in ReviewAction;
\* the model answers with plain text in the end. The weak fairness of
\* HandleApiResponse is written out, with ApiResponseAwaits for its ENABLED.
Fairness ==
  /\ WF_vars(InputEnterQuery)
  /\ <>[]ApiResponseAwaits => []<><<HandleApiResponse>>_vars
  /\ WF_vars(HandleCommandComplete)
  /\ WF_vars(\E t \in {x \in tasks : x.kind = "chat"} : \E outcome \in ChatOutcomes :
               ChatPosts(t, outcome))
  /\ WF_vars(\E t \in {x \in tasks : x.kind = "exec"} :
               \E result \in ExecOutcomes(Unwrap(t.tool)) : ExecPosts(t, result))
  /\ SF_vars(ReviewEnter)
  /\ SF_vars(\E t \in {x \in tasks : x.kind = "chat"} :
               ChatPosts(t, <<"Ok", ResponseText>>))

\* a turn under these assumptions
SpecTurn == InitTurn /\ [][NextTurn]_vars /\ Fairness

\* the turn is over: the state is Input again (or the conversation has reached
\* the explored length MaxMsgs)
TurnOver == state = "Input" \/ ~Room

\* C20: under the assumptions of Fairness every turn ends: whenever the state
\* is Thinking, ReviewAction, Executing or Finalizing, the state is Input again
\* later on, in every configuration, safe_mode included.
C20_TurnEnds ==
  [](state \in {"Thinking", "ReviewAction", "Executing", "Finalizing"} => <>TurnOver)

\* the part of C20 that holds: the same without safe mode
C20_TurnEndsOutsideSafeMode ==
  [](~safe_mode /\ state \in {"Thinking", "ReviewAction", "Executing", "Finalizing"} =>
       <>TurnOver)

(* ---------------------------------------------------------------------- *)
(* gemini.rs and openai.rs: the request built from a conversation          *)
(* ---------------------------------------------------------------------- *)

\* the messages of a conversation with, or without, the role System
OfRole(msgs, system) == SelectSeq(msgs, LAMBDA m : (m.role = "System") = system)

\* the last n elements of a sequence
LastN(seq, n) == SubSeq(seq, Len(seq) - n + 1, Len(seq))

\* A plausible slip: the window taken from the start of the history.
apply_sliding_window_FromStart(msgs, window_size) ==
  LET sys == OfRole(msgs, TRUE)
      non_system == OfRole(msgs, FALSE)
  IN (IF sys = <<>> THEN <<>> ELSE <<sys[Len(sys)]>>) \o
     (IF Len(non_system) > window_size THEN SubSeq(non_system, 1, window_size)
      ELSE non_system)

\* GeminiClient::apply_sliding_window: system_prompt is the System message met
\* last in the loop over the messages
apply_sliding_window(msgs, window_size) ==
  LET sys == OfRole(msgs, TRUE)
      non_system == OfRole(msgs, FALSE)
  IN (IF sys = <<>> THEN <<>> ELSE <<sys[Len(sys)]>>) \o
     (IF Len(non_system) > window_size THEN LastN(non_system, window_size)
      ELSE non_system)

\* GeminiClient::build_request
build_request(msgs) ==
  LET sys == OfRole(msgs, TRUE)
      turns == OfRole(msgs, FALSE)
  IN [contents |-> [i \in 1..Len(turns) |->
                      [role |-> IF turns[i].role = "User" THEN "user" ELSE "model",
                       text |-> turns[i].content]],
      system_instruction |-> IF sys = <<>> THEN None ELSE Some(sys[Len(sys)].content)]

\* The other order: the System messages skipped first and the window cut after.
openai_chat_messages_FilterFirst(msgs, max_history_messages) ==
  LET turns == OfRole(msgs, FALSE)
      kept == IF Len(turns) > max_history_messages THEN LastN(turns, max_history_messages)
              ELSE turns
  IN <<[role |-> "system", content |-> SYSTEM_PROMPT]>> \o
     [i \in 1..Len(kept) |->
        [role |-> IF kept[i].role = "User" THEN "user" ELSE "assistant",
         content |-> kept[i].content]]

\* OpenAIClient::chat: the messages of its ChatRequest
openai_chat_messages(msgs, max_history_messages) ==
  LET start == IF Len(msgs) > max_history_messages THEN Len(msgs) - max_history_messages
               ELSE 0
      kept == OfRole(SubSeq(msgs, start + 1, Len(msgs)), FALSE)
  IN <<[role |-> "system", content |-> SYSTEM_PROMPT]>> \o
     [i \in 1..Len(kept) |->
        [role |-> IF kept[i].role = "User" THEN "user" ELSE "assistant",
         content |-> kept[i].content]]

\* longest conversation a request is built from
MaxConv == 4

\* largest window
MaxWindow == 3

\* the messages the conversations are made of
WindowMessages ==
  {Message("System", SystemPromptText), Message("System", CommandCancelledText),
   Message("User", <<"a">>), Message("Model", <<"b">>), Message("User", <<"c">>)}

\* the fields of App::new that a check of a function on its own leaves alone
AppAtRest ==
  /\ state = "Input"
  /\ input_textarea = <<>>
  /\ action_textarea = <<>>
  /\ current_command = None
  /\ error_message = None
  /\ should_quit = FALSE
  /\ dangerous_command_detected = FALSE
  /\ running_task = None
  /\ python_available = TRUE
  /\ safe_mode = FALSE
  /\ ai_client = TRUE
  /\ tasks = {}
  /\ queue = <<>>
  /\ edits = 0

\* a function applied on its own: only the record of the step changes
Applied(name, arg, res) ==
  /\ last' = Step(name, arg, None, res, "none")
  /\ UNCHANGED <<state, input_textarea, action_textarea, messages, current_command,
                 current_tool, execution_output, error_message, should_quit,
                 dangerous_command_detected, running_task, tasks, queue, edits, Fixed>>

InitWindow ==
  /\ AppAtRest
  /\ current_tool = None
  /\ execution_output = <<>>
  /\ messages \in SeqsUpTo(WindowMessages, MaxConv)
  /\ last = Step("Init", None, None, None, "none")

\* client.apply_sliding_window(&messages) with max_history_messages = w
SlidingWindow(w) == Applied("apply_sliding_window", w, apply_sliding_window(messages, w))

\* the GeminiRequest of GeminiClient::chat
GeminiRequest(w) ==
  Applied("build_request", w, build_request(apply_sliding_window(messages, w)))

\* the ChatRequest of OpenAIClient::chat
OpenAIRequest(w) == Applied("openai_chat", w, openai_chat_messages(messages, w))

NextWindow ==
  \E w \in 0..MaxWindow : SlidingWindow(w) \/ GeminiRequest(w) \/ OpenAIRequest(w)

SpecWindow == InitWindow /\ [][NextWindow]_vars

\* min(N_non_system, W) for the conversation at hand
WindowCount(w) ==
  IF Len(OfRole(messages, FALSE)) < w THEN Len(OfRole(messages, FALSE)) ELSE w

OpenAIEntries(turns) ==
  [i \in 1..Len(turns) |->
     [role |-> IF turns[i].role = "User" THEN "user" ELSE "assistant",
      content |-> turns[i].content]]

\* C22: for every conversation and window W, the request OpenAIClient::chat
\* builds holds, after its system entry, exactly the last min(N_non_system, W)
\* non-System messages in original order, User as "user" and Model as
\* "assistant".
C22_OpenAIWindow ==
  last.ev = "openai_chat" =>
    /\ last.res[1] = [role |-> "system", content |-> SYSTEM_PROMPT]
    /\ Tail(last.res) = OpenAIEntries(LastN(OfRole(messages, FALSE), WindowCount(last.arg)))

(* ---------------------------------------------------------------------- *)
(* executor.rs: truncate_output                                            *)
(* ---------------------------------------------------------------------- *)

\* a character of two bytes in UTF-8
TwoByteChar == "U+00E9"

\* char::len_utf8
len_utf8(c) == IF c = TwoByteChar THEN 2 ELSE 1

RECURSIVE ByteLen(_)
\* str::len: the length in bytes
ByteLen(s) == IF s = <<>> THEN 0 ELSE len_utf8(Head(s)) + ByteLen(Tail(s))

\* str::is_char_boundary
is_char_boundary(s, index) == \E k \in 0..Len(s) : ByteLen(SubSeq(s, 1, k)) = index

\* s[..byte_limit], byte_limit a character boundary of s
ByteSlice(s, byte_limit) ==
  SubSeq(s, 1, CHOOSE k \in 0..Len(s) : ByteLen(SubSeq(s, 1, k)) = byte_limit)

\* the text pushed after a truncated output
TruncationMarker == <<"\n", "\n", "[Output truncated due to size limits]">>

\* A plausible slip: the byte cap tested with >= in place of >.
ExceedsBytes_AtTheCap(s, max_output_bytes) == ByteLen(s) >= max_output_bytes

\* result.len() > self.max_output_bytes
ExceedsBytes(s, max_output_bytes) == ByteLen(s) > max_output_bytes

\* CommandExecutor::truncate_output: the pair (result, truncated)
truncate_output(output, max_output_bytes, max_output_lines) ==
  LET over == ExceedsBytes(output, max_output_bytes)
      byte_limit == CHOOSE b \in 0..max_output_bytes :
                      /\ is_char_boundary(output, b)
                      /\ \A c \in (b + 1)..max_output_bytes : ~is_char_boundary(output, c)
      cut == IF over THEN ByteSlice(output, byte_limit) ELSE output
      lines == Lines(cut)
      long == Len(lines) > max_output_lines
      kept == IF long THEN Join(SubSeq(lines, 1, max_output_lines), <<"\n">>) ELSE cut
  IN <<IF over \/ long THEN kept \o TruncationMarker ELSE kept, over \/ long>>

\* longest output truncated
MaxOut == 5

\* largest byte cap
MaxBytes == 6

\* largest line cap
MaxLines == 2

\* the characters the outputs are made of
OutputChars == {"x", "\n", "\r", TwoByteChar}

\* a stream read to completion, held in execution_output
InitTruncate ==
  /\ AppAtRest
  /\ current_tool = None
  /\ messages = <<>>
  /\ execution_output \in SeqsUpTo(OutputChars, MaxOut)
  /\ last = Step("Init", None, None, None, "none")

\* CommandExecutor::with_limits(b, l).truncate_output(o)
Truncate(b, l) ==
  Applied("truncate_output", <<b, l>>, truncate_output(execution_output, b, l))

NextTruncate == \E b \in 0..MaxBytes, l \in 0..MaxLines : Truncate(b, l)

SpecTruncate == InitTruncate /\ [][NextTruncate]_vars

\* the part of a truncated result before the marker
BeforeMarker(res) == SubSeq(res, 1, Len(res) - Len(TruncationMarker))

\* C23: truncate_output(o) with caps (B, L) returns (o', flag): flag is true iff
\* o has more than B bytes or more than L lines; when flag is false o' equals
\* o; when flag is true o' is a part p followed by exactly the marker, where p
\* has at most B bytes and at most L lines and ends on a character boundary of
\* o (the byte length of p is a character boundary of o).
C23_TruncateContract ==
  last.ev = "truncate_output" =>
    LET o == execution_output
        B == last.arg[1]
        L == last.arg[2]
        res == last.res[1]
        flag == last.res[2]
        p == BeforeMarker(res)
    IN /\ flag = (ByteLen(o) > B \/ Len(Lines(o)) > L)
       /\ ~flag => res = o
       /\ flag => /\ Len(res) >= Len(TruncationMarker)
                  /\ res = p \o TruncationMarker
                  /\ ByteLen(p) <= B
                  /\ Len(Lines(p)) <= L
                  /\ is_char_boundary(o, ByteLen(p))

\* C23 as the code has it: the flag, the unchanged output, the marker and the
\* two caps as stated; p is a prefix of o, and so ends on a character boundary
\* of o, when o holds no carriage return (a kept line ended by "\r\n" in o is
\* ended by "\n" in p).
C23_TruncateAmended ==
  last.ev = "truncate_output" =>
    LET o == execution_output
        B == last.arg[1]
        L == last.arg[2]
        res == last.res[1]
        flag == last.res[2]
        p == BeforeMarker(res)
    IN /\ flag = (ByteLen(o) > B \/ Len(Lines(o)) > L)
       /\ ~flag => res = o
       /\ flag => /\ Len(res) >= Len(TruncationMarker)
                  /\ res = p \o TruncationMarker
                  /\ ByteLen(p) <= B
                  /\ Len(Lines(p)) <= L
                  /\ (\A i \in 1..Len(o) : o[i] # "\r") =>
                       (Len(p) <= Len(o) /\ p = SubSeq(o, 1, Len(p)))

\* C23 witness: the cap of 3 bytes falls inside the two-byte character, the cut
\* goes back to 2 bytes and the marker follows
C23_Witness ==
  /\ last.ev = "truncate_output" /\ last.arg = <<3, 1>>
  /\ execution_output = <<"x", "\n", TwoByteChar, "\n", "x">>
  /\ last.res = <<<<"x", "\n">> \o TruncationMarker, TRUE>>

(* ---------------------------------------------------------------------- *)
(* tool_call.rs: the parser on its own                                     *)
(* ---------------------------------------------------------------------- *)

\* most pieces a parsed text is made of
MaxPieces == 3

\* the pieces of the texts: blanks, a letter, braces, the two fences, a tool
\* call, an object whose tool is no string, an object without a tool
TextPieces ==
  {<<" ">>, <<"\n">>, <<"x">>, <<"{">>, <<"}">>, Fence, FenceJson,
   ToolJson(S_run_cmd, <<<<S_command, <<"w">>>>>>),
   <<"{">> \o Quoted(S_tool) \o <<":", "1", "}">>,
   <<"{">> \o Quoted(<<"a">>) \o <<":">> \o Quoted(<<"b">>) \o <<"}">>}

RECURSIVE Concat(_)
\* the pieces of a text put together
Concat(pieces) == IF pieces = <<>> THEN <<>> ELSE Head(pieces) \o Concat(Tail(pieces))

RECURSIVE JsonEscape(_)
\* serde_json's escaping of the characters of a string
JsonEscape(s) ==
  IF s = <<>> THEN <<>>
  ELSE (IF Head(s) \in {"\"", "\\"} THEN <<"\\", Head(s)>>
        ELSE IF Head(s) = "\n" THEN <<"\\", "n">>
        ELSE IF Head(s) = "\t" THEN <<"\\", "t">>
        ELSE IF Head(s) = "\r" THEN <<"\\", "r">>
        ELSE <<Head(s)>>) \o JsonEscape(Tail(s))

\* serde_json::to_string(&tool_call): every field, in the order of the struct
to_string(tc) ==
  LET values == <<tc.tool, tc.command, tc.code, tc.path, tc.content, tc.pattern,
                  tc.directory>>
  IN <<"{">> \o
     Join([i \in 1..Len(ToolFields) |->
             Quoted(ToolFields[i]) \o <<":">> \o Quoted(JsonEscape(values[i]))], <<",">>) \o
     <<"}">>

\* the values of the command of a serialized tool call: plain, with a quote and
\* a line end, with braces, with a fence
FieldValues ==
  {<<"w">>, <<"\"", "\n">>, <<"{">>, <<"}">>, <<"{", "}">>, <<"}", "{">>, Fence,
   Fence \o <<"{">>}

\* the tool calls serialized
ToolCalls ==
  {ToolCall(S_run_cmd, v, <<>>, <<>>, <<>>, <<>>, <<>>) : v \in FieldValues} \cup
  {ToolCall(S_write_file, <<>>, <<>>, <<"f">>, v, <<>>, <<>>) : v \in FieldValues}

\* the texts around a serialized tool call: none, the prefix of
\* prop_tool_call_embedded_roundtrip, a prefix and a suffix, the fenced block of
\* prop_tool_call_markdown_roundtrip, a bare fence, a prefix with a brace
Contexts ==
  {<<<<>>, <<>>>>,
   <<<<"Here's the command: ">>, <<>>>>,
   <<<<"x", " ">>, <<" ", "x">>>>,
   <<FenceJson \o <<"\n">>, <<"\n">> \o Fence>>,
   <<Fence \o <<"\n">>, <<"\n">> \o Fence>>,
   <<<<"{", " ">>, <<>>>>}

\* a model response, appended as a Model message before it is parsed; or a tool
\* call to serialize, held in current_tool
InitParse ==
  /\ AppAtRest
  /\ execution_output = <<>>
  /\ \/ /\ messages \in {<<Message("Model", Concat(ps))>> : ps \in SeqsUpTo(TextPieces, MaxPieces)}
        /\ current_tool = None
     \/ /\ messages = <<>>
        /\ current_tool \in {Some(tc) : tc \in ToolCalls}
  /\ last = Step("Init", None, None, None, "none")

\* ParsedResponse::parse on the serialization of the tool call, between the two
\* texts of ctx
Roundtrip(ctx) ==
  /\ IsSome(current_tool)
  /\ Applied("roundtrip", ctx,
             ParsedResponse_parse(ctx[1] \o to_string(Unwrap(current_tool)) \o ctx[2]))

\* ParsedResponse::parse(&response)
ParseResponse ==
  /\ messages # <<>>
  /\ Applied("parse", None, ParsedResponse_parse(messages[1].content))

NextParse == ParseResponse \/ \E ctx \in Contexts : Roundtrip(ctx)

SpecParse == InitParse /\ [][NextParse]_vars

\* one of the three extraction steps of ToolCall::parse yields a tool call
StepYields(s) ==
  \/ IsSome(try_parse_json(Trim(s)))
  \/ IsSome(try_parse_markdown_block(Trim(s)))
  \/ IsSome(try_find_json_object(Trim(s)))

\* C24: ParsedResponse::parse is total: every input yields exactly one of
\* ToolCall and TextResponse, and whenever none of the three extraction steps
\* (whole trimmed string, fenced block, balanced-brace scan) yields an object
\* with a tool field, the result is TextResponse(s) with the original,
\* untrimmed input.
C24_ParseTotal ==
  last.ev = "parse" =>
    LET s == messages[1].content
    IN /\ Len(last.res) = 2
       /\ last.res[1] \in {"ToolCall", "TextResponse"}
       /\ last.res[1] = "ToolCall" <=> StepYields(s)
       /\ ~StepYields(s) => last.res = <<"TextResponse", s>>

\* C24 witness: an object without a tool field between a blank and a line end
\* comes back as the text it was, blanks included
C24_Witness ==
  /\ last.ev = "parse"
  /\ messages[1].content =
       <<" ", "{">> \o Quoted(<<"a">>) \o <<":">> \o Quoted(<<"b">>) \o <<"}", "\n">>
  /\ last.res = <<"TextResponse", messages[1].content>>

\* C25: for every ToolCall t, including field values that contain '{', '}' or
\* backticks, parsing the JSON serialization of t yields ToolCall(t') with t'
\* equal to t on all populated fields, and the same holds when the
\* serialization is embedded in prefix/suffix text or in a fenced code block.
C25_Roundtrip ==
  last.ev = "roundtrip" => last.res = <<"ToolCall", Unwrap(current_tool)>>

\* C25 for the serialization alone: the whole text is the object, and the first
\* step recovers it whatever the values hold
C25_RoundtripAlone ==
  (last.ev = "roundtrip" /\ last.arg = <<<<>>, <<>>>>) =>
    last.res = <<"ToolCall", Unwrap(current_tool)>>

\* C25 for values without braces, in a text without braces: the fenced block or
\* the brace scan recovers the tool call, a fence in a value included
C25_RoundtripWithoutBraces ==
  (/\ last.ev = "roundtrip"
   /\ \A i \in 1..Len(last.arg[1]) : last.arg[1][i] # "{"
   /\ \A f \in {"command", "content"} :
        \A i \in 1..Len(Unwrap(current_tool)[f]) : Unwrap(current_tool)[f][i] \notin {"{", "}"})
    => last.res = <<"ToolCall", Unwrap(current_tool)>>

(* ---------------------------------------------------------------------- *)
(* executor.rs: execute_tool_async                                         *)
(* ---------------------------------------------------------------------- *)

\* std::process::ExitStatus: the process exited with a code, or a signal ended it
ExitStatuses == {<<"exited", 0>>, <<"exited", 1>>, <<"exited", 2>>, <<"signaled", 9>>}

\* ExitStatus::code
ExitStatus_code(status) == IF status[1] = "exited" THEN Some(status[2]) ELSE None

\* A plausible slip: every process that exited by itself counted as a success.
ExitStatus_success_AnyExit(status) == status[1] = "exited"

\* ExitStatus::success
ExitStatus_success(status) == status = <<"exited", 0>>

\* what the operating system answers: io::Result<Output> for the tools that
\* start a process, io::Result<String> for read_file and io::Result<()> for
\* write_file
ProcessOutcomes ==
  {<<"Ok", status, out, err>> :
     status \in ExitStatuses, out \in {<<>>, <<"o">>, <<"o", "\n", "o", "\n", "o">>},
     err \in {<<>>, <<"e">>}} \cup
  {<<"Err", <<"No such file or directory">>>>}

\* the arms of "match output" in execute_async and run_python_async
FromOutput(output, max_output_bytes, max_output_lines, failed) ==
  IF output[1] = "Ok"
  THEN LET out == truncate_output(output[3], max_output_bytes, max_output_lines)
           err == truncate_output(output[4], max_output_bytes, max_output_lines)
       IN [stdout |-> out[1], stderr |-> err[1],
           exit_code |-> IF IsSome(ExitStatus_code(output[2]))
                         THEN Unwrap(ExitStatus_code(output[2])) ELSE 0 - 1,
           success |-> ExitStatus_success(output[2]),
           truncated |-> out[2] \/ err[2]]
  ELSE [stdout |-> <<>>, stderr |-> failed \o output[2], exit_code |-> 0 - 1,
        success |-> FALSE, truncated |-> FALSE]

\* CommandExecutor::read_file, on the answer of std::fs::read_to_string
read_file(answer, max_output_bytes, max_output_lines) ==
  IF answer[1] = "Ok"
  THEN LET out == truncate_output(answer[3], max_output_bytes, max_output_lines)
       IN [stdout |-> out[1], stderr |-> <<>>, exit_code |-> 0, success |-> TRUE,
           truncated |-> out[2]]
  ELSE [stdout |-> <<>>, stderr |-> <<"Failed to read file: ">> \o answer[2],
        exit_code |-> 1, success |-> FALSE, truncated |-> FALSE]

\* CommandExecutor::write_file, on the answer of std::fs::write
write_file(path, content, answer) ==
  IF answer[1] = "Ok"
  THEN [stdout |-> <<"Successfully wrote ">> \o ToDecimal(ByteLen(content)) \o
                   <<" bytes to ">> \o path,
        stderr |-> <<>>, exit_code |-> 0, success |-> TRUE, truncated |-> FALSE]
  ELSE [stdout |-> <<>>, stderr |-> <<"Failed to write file: ">> \o answer[2],
        exit_code |-> 1, success |-> FALSE, truncated |-> FALSE]

\* CommandExecutor::execute_tool_async, on the answer of the operating system
execute_tool_async(tool, answer, max_output_bytes, max_output_lines) ==
  IF tool.tool \in {S_run_cmd, S_search}
  THEN FromOutput(answer, max_output_bytes, max_output_lines, <<"Failed to execute: ">>)
  ELSE IF tool.tool = S_run_python
  THEN FromOutput(answer, max_output_bytes, max_output_lines, <<"Python error: ">>)
  ELSE IF tool.tool = S_read_file
  THEN read_file(answer, max_output_bytes, max_output_lines)
  ELSE IF tool.tool = S_write_file
  THEN write_file(tool.path, tool.content, answer)
  ELSE [stdout |-> <<>>, stderr |-> <<"Unknown tool: ">> \o tool.tool, exit_code |-> 1,
        success |-> FALSE, truncated |-> FALSE]

\* the tool calls executed: one of each tool and one of no tool
ExecutedTools ==
  {ToolCall(S_run_cmd, <<"w">>, <<>>, <<>>, <<>>, <<>>, <<>>),
   ToolCall(S_run_python, <<>>, <<"1">>, <<>>, <<>>, <<>>, <<>>),
   ToolCall(S_read_file, <<>>, <<>>, <<"f">>, <<>>, <<>>, <<>>),
   ToolCall(S_write_file, <<>>, <<>>, <<"f">>, <<"x">>, <<>>, <<>>),
   ToolCall(S_search, <<>>, <<>>, <<>>, <<>>, <<"p">>, <<>>),
   ToolCall(<<"x">>, <<"w">>, <<>>, <<>>, <<>>, <<>>, <<>>)}

\* the tool call the executor task is given
InitExec ==
  /\ AppAtRest
  /\ messages = <<>>
  /\ execution_output = <<>>
  /\ current_tool \in {Some(tc) : tc \in ExecutedTools}
  /\ last = Step("Init", None, None, None, "none")

\* executor.execute_tool_async(&tool).await with the caps b and l
ExecuteTool(answer, b, l) ==
  Applied("execute_tool_async", <<answer, b, l>>,
          execute_tool_async(Unwrap(current_tool), answer, b, l))

NextExec == \E answer \in ProcessOutcomes, b \in {1, MaxBytes}, l \in {MaxLines} :
              ExecuteTool(answer, b, l)

SpecExec == InitExec /\ [][NextExec]_vars

\* C26: every CommandResult returned by execute_tool_async, for every tool and
\* every outcome (normal exit, non-zero exit, killed by signal, spawn failure,
\* file I/O failure, unknown tool), has success = (exit_code = 0).
C26_SuccessIffExitZero ==
  last.ev = "execute_tool_async" => (last.res.success = (last.res.exit_code = 0))

\* C26 witness: a command ended by a signal has no exit code; the result holds
\* -1 and no success
C26_Witness ==
  /\ last.ev = "execute_tool_async"
  /\ Unwrap(current_tool).tool = S_run_cmd
  /\ last.arg[1][2] = <<"signaled", 9>>
  /\ last.res.exit_code = 0 - 1 /\ ~last.res.success

\* a text that is submitted as a slash command
IsSlash(text) == ~AllWhitespace(text) /\ StartsWith(Trim(text), <<"/">>)

\* the command words handle_slash_command knows
KnownCommands ==
  {S_clear, S_help, S_new, S_sessions, S_switch, S_delete, S_quit, S_exit, S_q}

\* the number of User messages of a conversation
UserCount(msgs) == Len(SelectSeq(msgs, LAMBDA m : m.role = "User"))

\* what C27 says of every slash command but for the User messages
SlashIntercepted ==
  /\ last'.ev = "Key" /\ last'.arg = "Enter" /\ last'.res \in {"Handled", "Quit"}
  /\ state' = "Input"
  /\ should_quit' = (SlashCommandWord(Trim(input_textarea)) \in {S_quit, S_exit, S_q})
  /\ tasks' = tasks /\ queue' = queue
  /\ input_textarea' = <<>>
  /\ SlashCommandWord(Trim(input_textarea)) \notin KnownCommands =>
       /\ Len(messages') = Len(messages) + 1
       /\ SubSeq(messages', 1, Len(messages)) = messages
       /\ messages'[Len(messages')].role = "System"
       /\ messages'[Len(messages')].content[1] = "Unknown command: "

\* C27: for every input submitted in Input whose trimmed text starts with '/',
\* the state stays Input (or the app quits for /quit, /exit, /q), no User
\* message is appended, no model call is spawned and the input buffer is
\* cleared; an unrecognized command appends exactly one System message
\* containing "Unknown command".
C27_SlashNoUserMessage ==
  [][(state = "Input" /\ IsSlash(input_textarea)) =>
       (SlashIntercepted /\ UserCount(messages') <= UserCount(messages))]_vars

\* C27 as the code has it: the same, with the User messages told apart: the
\* submitted text is never appended as a User message, and the conversation
\* gains User messages only when /switch loads a saved session, whose messages
\* take the place of the non-System ones.
C27_SlashIntercepted ==
  [][(state = "Input" /\ IsSlash(input_textarea)) =>
       /\ SlashIntercepted
       /\ messages' # messages => messages'[Len(messages')].role = "System"
       /\ SlashCommandWord(Trim(input_textarea)) # S_switch =>
            UserCount(messages') <= UserCount(messages)]_vars

\* C27 witness: "/bogus" was submitted; the state is Input, the buffer is
\* empty, nothing runs and the last message is the System message on the
\* unknown command
C27_Witness ==
  /\ last.ev = "Key" /\ last.arg = "Enter" /\ last.res = "Handled"
  /\ state = "Input" /\ input_textarea = <<>> /\ tasks = {} /\ ~should_quit
  /\ messages[Len(messages)] =
       Message("System", <<"Unknown command: ", "/", "b", "o", "g", "u", "s",
                           ". Type /help for available commands.">>)

\* C28: in every application state, handling Ctrl+C sets should_quit and
\* returns Quit, and leaves the application state, the conversation and both
\* edit buffers as they were; the loop takes no step after it; and Ctrl+C can
\* be handled in every reachable state in which the loop still runs.
C28_CtrlCQuits ==
  /\ [][KeyCtrlC =>
          /\ should_quit' /\ last'.ev = "Key" /\ last'.res = "Quit"
          /\ UNCHANGED <<state, messages, input_textarea, action_textarea>>]_vars
  /\ [][~should_quit]_vars
  /\ [](~should_quit => ENABLED KeyCtrlC)

\* C28 witness: Ctrl+C was handled while a command was running; the state is
\* still Executing and the loop is over
C28_Witness ==
  /\ last.ev = "Key" /\ last.arg = "CtrlC" /\ last.res = "Quit"
  /\ should_quit /\ state = "Executing" /\ last.pre = "Executing"
  /\ \E t \in tasks : t.kind = "exec"

\* C29: in every state of the conversation the loop reaches, the conversation
\* holds at most one System message and, if present, it is the first message.
C29_OneSystemMessageFirst ==
  /\ Len(OfRole(messages, TRUE)) <= 1
  /\ \A i \in 2..Len(messages) : messages[i].role # "System"

\* C29 for the startup message alone: the message main adds before the loop
\* stays the first message of the conversation
C29_StartupMessageStaysFirst ==
  messages # <<>> /\ messages[1] = Message("System", SystemPromptText)

\* Config::default, max_history_messages
default_max_history == 20

\* AIClient::chat over the Gemini transport: GeminiClient::chat builds its
\* request from the windowed conversation
AIClient_chat(msgs) == build_request(apply_sliding_window(msgs, default_max_history))

\* C30: for every conversation the loop reaches, the request built for the
\* model carries the System message added at startup as its system
\* instruction, and no other System message is sent in its place or as a
\* regular turn.
C30_StartupPreambleSent ==
  \A t \in tasks :
    t.kind = "chat" =>
      LET req == AIClient_chat(t.messages)
      IN /\ req.system_instruction = Some(SystemPromptText)
         /\ req.contents = [i \in 1..Len(OfRole(t.messages, FALSE)) |->
                              [role |-> IF OfRole(t.messages, FALSE)[i].role = "User"
                                        THEN "user" ELSE "model",
                               text |-> OfRole(t.messages, FALSE)[i].content]]

\* C30 for the turns alone: the contents of the request are the User and Model
\* messages of the conversation, in order, and no System message is among them
C30_NoSystemTurn ==
  \A t \in tasks :
    t.kind = "chat" =>
      LET req == AIClient_chat(t.messages)
      IN /\ Len(req.contents) = Len(OfRole(t.messages, FALSE))
         /\ \A i \in 1..Len(req.contents) :
              /\ req.contents[i].role \in {"user", "model"}
              /\ req.contents[i].text = OfRole(t.messages, FALSE)[i].content

(* ---------------------------------------------------------------------- *)
(* The conversation only grows                                             *)
(* ---------------------------------------------------------------------- *)

\* the slash commands that call messages.retain: /clear, /new and /switch
ResetsConversation ==
  /\ InputEnterSlash
  /\ SlashCommandWord(get_input_text(input_textarea)) \in {S_clear, S_new, S_switch}

\* C31: across every step of the loop other than the slash commands /clear, /new
\* and /switch, the conversation before the step is a prefix of the conversation
\* after it: messages are appended, never altered or removed, in particular by
\* Escape, by a cancellation and by a model error.
C31_AppendOnly ==
  [][~ResetsConversation =>
       /\ Len(messages) <= Len(messages')
       /\ SubSeq(messages', 1, Len(messages)) = messages]_vars

\* a command was cancelled after a model error and a model proposal, and all of it
\* is still in the conversation
C31_Witness ==
  /\ last.ev = "Key" /\ last.res = "CancelCommand"
  /\ IsSome(error_message)
  /\ \E i \in 1..Len(messages) : messages[i].role = "Model"
  /\ messages[Len(messages)] = Message("System", CommandCancelledText)

(* ---------------------------------------------------------------------- *)
(* The life of error_message                                               *)
(* ---------------------------------------------------------------------- *)

\* a successful action: a model call that returned Ok is taken from the channel, or
\* a confirmed command completes
SuccessfulAction ==
  \/ HandleApiResponse /\ Head(queue)[2][1] = "Ok"
  \/ HandleCommandComplete

\* C32: once a model error has set error_message, the message stays set across every
\* following event that is not a successful action and is cleared by the next
\* successful action (a model call that returns Ok, a confirmed command that
\* completes).
C32_ErrorUntilSuccess ==
  [][IsSome(error_message) =>
       IF SuccessfulAction THEN error_message' = None
       ELSE IsSome(error_message')]_vars

\* what the loop does: no step clears error_message
C32_ErrorNeverCleared == [][IsSome(error_message) => IsSome(error_message')]_vars

(* ---------------------------------------------------------------------- *)
(* Escape while the loop waits                                             *)
(* ---------------------------------------------------------------------- *)

C34_EscInFinalizing ==
  [][(state = "Finalizing" /\ KeyEvent(<<"Esc">>)) =>
       /\ last'.res = "CancelCommand"
       /\ messages' = Append(messages, Message("System", CommandCancelledText))
       /\ state' = "Input"
       /\ ~should_quit'
       /\ error_message' = error_message]_vars

\* the analysis of a completed command was cancelled and the loop is back in Input
C34_Witness ==
  /\ last.ev = "Key" /\ last.arg = "Esc" /\ last.pre = "Finalizing"
  /\ last.res = "CancelCommand"
  /\ state = "Input" /\ ~should_quit
  /\ messages[Len(messages)] = Message("System", CommandCancelledText)

(* ---------------------------------------------------------------------- *)
(* The pending tool                                                        *)
(* ---------------------------------------------------------------------- *)

\* C35: whenever the application state is Input, no pending tool is held: the
\* staged ToolCall exists only from the entry into ReviewAction until the turn
\* returns to Input (by cancel, by Escape during execution, or by the final text
\* response) and is discarded at that point.
C35_NoToolInInput == state = "Input" => current_tool = None

\* what the loop does: a tool once staged is held until the next one replaces it
C35_ToolNeverDiscarded == [][IsSome(current_tool) => IsSome(current_tool')]_vars

(* ---------------------------------------------------------------------- *)
(* A query without a model client                                          *)
(* ---------------------------------------------------------------------- *)

\* C36: when no model client could be built because the API key is missing,
\* submitting a non-empty query surfaces the error before any state change:
\* error_message is set, the application state stays Input, no User message is
\* appended to the conversation, and no model call is spawned.
C36_MissingClientBeforeChange ==
  [][(~ai_client /\ InputEnterQuery) =>
       /\ error_message' = Some(ApiKeyNotConfigured)
       /\ state' = "Input"
       /\ messages' = messages
       /\ tasks' = tasks]_vars

\* what the loop does: submit_input has appended the User message and cleared the
\* buffer before run_loop finds that there is no client
C36_MissingClientAfterSubmit ==
  [][(~ai_client /\ InputEnterQuery) =>
       /\ error_message' = Some(ApiKeyNotConfigured)
       /\ state' = "Input"
       /\ messages' = Append(messages, Message("User", get_input_text(input_textarea)))
       /\ input_textarea' = <<>>
       /\ tasks' = tasks]_vars

(* ---------------------------------------------------------------------- *)
(* Keys in ReviewAction                                                    *)
(* ---------------------------------------------------------------------- *)

\* C37: Enter in ReviewAction with an empty or whitespace-only action buffer is
\* ignored and never surfaced as an error: the state stays ReviewAction, no
\* executor task is spawned, and the conversation, the pending tool and
\* error_message are unchanged.
C37_BlankActionIgnored ==
  [][(state = "ReviewAction" /\ KeyEvent(<<"Enter">>) /\ AllWhitespace(action_textarea)) =>
       /\ last'.res = "Ignored"
       /\ state' = "ReviewAction"
       /\ tasks' = tasks /\ running_task' = running_task
       /\ messages' = messages
       /\ current_tool' = current_tool
       /\ error_message' = error_message]_vars

\* Enter was ignored on a buffer of blanks
C37_Witness ==
  /\ last.ev = "Key" /\ last.arg = "Enter" /\ last.pre = "ReviewAction"
  /\ last.res = "Ignored"
  /\ state = "ReviewAction"
  /\ action_textarea # <<>> /\ AllWhitespace(action_textarea)

(* ---------------------------------------------------------------------- *)
(* The danger gate: two runs that differ in the flag only                  *)
(* ---------------------------------------------------------------------- *)

\* The second run of the comparison. A step GateFlip leads from a state of the loop
\* to its twin, the state that differs in dangerous_command_detected only, so that a
\* step property can look at both; it is not an operation of the program.
GateFlip ==
  /\ Running
  /\ dangerous_command_detected' = ~dangerous_command_detected
  /\ UNCHANGED <<last, state, input_textarea, action_textarea, messages, current_command,
                 current_tool, execution_output, error_message, should_quit,
                 running_task, tasks, queue, edits, Fixed>>

NextGate == NextResponse \/ GateFlip

\* an answer of the model and its review, with the flag free to take either value
\* at any time
SpecGate == InitResponse /\ [][NextGate]_vars

\* a step spawned a task of this kind
Spawned(kind) == \E t \in tasks' : t.kind = kind /\ t.id \notin {u.id : u \in tasks}

\* the messages a key event can append to the conversation
Notices ==
  {Message("System", CommandCancelledText),
   Message("User", get_input_text(input_textarea))} \cup
  (IF IsSome(current_tool)
   THEN {Message("System", SafeModeText(Unwrap(current_tool)))} ELSE {})

\* On a step to the twin state: the event E can be taken in both states or in
\* neither, and what it can lead to is the same in both: the application state,
\* should_quit, the tasks spawned and kept, the conversation, the pending tool, the
\* action buffer and error_message.
Twin(E) ==
  /\ (ENABLED E) <=> (ENABLED E)'
  /\ \A s \in AppStates : (ENABLED (E /\ state' = s)) <=> (ENABLED (E /\ state' = s))'
  /\ (ENABLED (E /\ should_quit')) <=> (ENABLED (E /\ should_quit'))'
  /\ \A kind \in {"chat", "exec"} :
       (ENABLED (E /\ Spawned(kind))) <=> (ENABLED (E /\ Spawned(kind)))'
  /\ (ENABLED (E /\ tasks' = tasks)) <=> (ENABLED (E /\ tasks' = tasks))'
  /\ (ENABLED (E /\ running_task' = running_task))
       <=> (ENABLED (E /\ running_task' = running_task))'
  /\ (ENABLED (E /\ messages' = messages)) <=> (ENABLED (E /\ messages' = messages))'
  /\ \A m \in Notices :
       (ENABLED (E /\ messages' = Append(messages, m)))
         <=> (ENABLED (E /\ messages' = Append(messages, m)))'
  /\ \A n \in 1..2 : \A role \in {"User", "Model", "System"} :
       (ENABLED (E /\ Len(messages') = Len(messages) + n
                   /\ messages'[Len(messages')].role = role))
         <=> (ENABLED (E /\ Len(messages') = Len(messages) + n
                         /\ messages'[Len(messages')].role = role))'
  /\ (ENABLED (E /\ current_tool' = current_tool))
       <=> (ENABLED (E /\ current_tool' = current_tool))'
  /\ (ENABLED (E /\ action_textarea' = action_textarea))
       <=> (ENABLED (E /\ action_textarea' = action_textarea))'
  /\ (ENABLED (E /\ error_message' = error_message))
       <=> (ENABLED (E /\ error_message' = error_message))'

\* the ApiResponse branch on a response whose text has been parsed: the fields it
\* leaves and the StateEvent it passes
ApiResponseOutcome(response, parsed) ==
  LET eff == IF response[1] = "Err"
             THEN [ApiResponseBase EXCEPT !.error_message = Some(response[2])]
             ELSE ApiResponseParsed(Append(messages, Message("Model", response[2])), parsed)
  IN <<eff.messages, eff.action_textarea, eff.current_tool, eff.error_message,
       App_transition_state(state, eff.event),
       App_transition_error(eff.error_message, state, eff.event)>>

\* On a step to the twin state: an ApiResponse waits in both states or in neither,
\* and the branch leaves the same conversation, action buffer, pending tool,
\* error_message and application state in both.
TwinApiResponse ==
  /\ ApiResponseAwaits <=> ApiResponseAwaits'
  /\ ApiResponseAwaits =>
       \A response \in {Head(queue)[2]} :
         \A parsed \in {IF response[1] = "Ok" THEN ParsedResponse_parse(response[2])
                        ELSE <<"TextResponse", response[2]>>} :
           /\ ApiResponseOutcome(response, parsed) = ApiResponseOutcome(response, parsed)'
           /\ ApiResponseOutcome(response, parsed)[1] = ApiResponseEffect(response).messages
           /\ ApiResponseOutcome(response, parsed)[3] = ApiResponseEffect(response).current_tool

\* Enter in ReviewAction with a buffer that is not blank
ConfirmsAction ==
  state = "ReviewAction" /\ KeyEvent(<<"Enter">>) /\ ~AllWhitespace(action_textarea)

\* C38: the danger gate is advisory. For any two runs that differ only in the value
\* of dangerous_command_detected, the loop's states, transitions, spawned tasks and
\* conversation are identical; in particular Enter with a non-empty buffer in
\* ReviewAction moves to Executing and spawns the executor whether the flag is true
\* or false.
C38_EnterAlwaysSpawns ==
  [][ConfirmsAction => (state' = "Executing" /\ Spawned("exec"))]_vars

\* C38, with safe mode set apart: in a state and in its twin the same events can be
\* taken, with the same outcomes; Enter with a non-empty buffer in ReviewAction
\* moves to Executing whatever the flag is, and spawns the executor exactly when
\* safe mode is off.
C38_GateAdvisory ==
  /\ [][GateFlip =>
          /\ \A key \in Keys : Twin(KeyEvent(key))
          /\ Twin(KeyCtrlC)
          /\ TwinApiResponse
          /\ Twin(HandleCommandComplete)
          /\ Twin(\E t \in tasks : \E outcome \in ChatOutcomes : ChatPosts(t, outcome))
          /\ Twin(\E t \in {x \in tasks : x.kind = "exec"} :
                    \E result \in ExecOutcomes(Unwrap(t.tool)) : ExecPosts(t, result))]_vars
  /\ [][ConfirmsAction =>
          /\ state' = "Executing"
          /\ Spawned("exec") <=> ~safe_mode
          /\ ~Spawned("chat")]_vars

\* a command was confirmed and its executor spawned while the flag was set
C38_Witness ==
  /\ last.ev = "Key" /\ last.arg = "Enter" /\ last.pre = "ReviewAction"
  /\ last.spawned = "exec"
  /\ dangerous_command_detected
  /\ state = "Executing"
  /\ \E t \in tasks : t.kind = "exec"

(* ---------------------------------------------------------------------- *)
(* The loop's calls of the state machine                                   *)
(* ---------------------------------------------------------------------- *)

\* C39: in every run of the event loop, every call the loop makes to the state
\* machine is for a (state, event) pair of the transition table: the Error branch
\* of App::transition is never taken, so error_message is only ever set by a model
\* error or a missing model client and never holds an "Invalid transition" text.
C39_NoInvalidTransition ==
  IsSome(error_message) => Unwrap(error_message)[1] # "Invalid transition"

\* a key of ReviewAction other than Enter and Escape is handled
EditsAction ==
  state = "ReviewAction" /\ \E key \in Keys \ {<<"Enter">>, <<"Esc">>} : KeyEvent(key)

\* C40: while the state is ReviewAction, every key other than Enter, Escape and
\* Ctrl+C changes only the action buffer: the application state, the pending tool,
\* the conversation and dangerous_command_detected are unchanged, so in ReviewAction
\* the flag always reflects the command the model proposed and is never computed
\* again for the text the user edited.
C40_EditsOnlyActionBuffer ==
  /\ [][EditsAction =>
          /\ last'.res = "Handled"
          /\ UNCHANGED <<state, current_tool, messages, dangerous_command_detected,
                         input_textarea, current_command, execution_output,
                         error_message, should_quit, running_task, tasks, queue>>]_vars
  /\ [](state = "ReviewAction" =>
          /\ IsSome(current_tool)
          /\ dangerous_command_detected = DangerousOperation(Unwrap(current_tool)))

\* a dangerous proposal was edited into a harmless text and the flag is still set
C40_Witness ==
  /\ state = "ReviewAction"
  /\ last.ev = "Key" /\ last.res = "Handled"
  /\ dangerous_command_detected
  /\ is_run_cmd(Unwrap(current_tool))
  /\ action_textarea # Unwrap(current_tool).command
  /\ ~is_dangerous(get_action_text(action_textarea))

====
